---- MODULE Spec2Model ----
(***************************************************************************)
(* Gate traversal of the Hypeddit downloader and the job layer around it.  *)
(*                                                                         *)
(* One job of the web server (server.ts, runDownloadProcess) drives one    *)
(* HypedditDownloader: initialize, downloadAudio, close.  The repository   *)
(* carries two builds of the downloader: the CDP build (puppeteer, with    *)
(* Browser.downloadWillBegin / Browser.downloadProgress listeners and the  *)
(* 10 s re-click timer) and the Playwright build (page.waitForEvent        *)
(* ('download') and download.saveAs).  `variant` selects the build.        *)
(*                                                                         *)
(* Steps are the code's await points: what runs synchronously between two  *)
(* awaits is one action.  The browser is the environment: it starts        *)
(* transfers, reports their progress, resolves or rejects clicks.          *)
(***************************************************************************)
EXTENDS Integers, Sequences, FiniteSets, TLC

\* ---------------------------------------------------------------- bounds
\* Two scopes of inputs.  The traversal scope draws every token sequence
\* up to MaxGates, and its browser runs the one transfer a download
\* click starts; the download scope draws sequences up to
\* MaxDownloadGates and lets the browser run MaxTransfers transfers.
MaxGates == 3
MaxDownloadGates == 1
MaxTransfers == 2
MaxProgressEvents == 1
MaxCalls == 4
MaxRuns == 3
MaxHandledGates == 2
MaxFollowButtons == 2
MaxCookies == 2
MaxAttempts == 2
MaxUpdates == 3

\* ------------------------------------------------------------- constants
\* JavaScript null, for a string-valued field (this.downloadFilename, a
\* class-less step div's classList.item(0)).
null == "<null>"

REPO_URL == "https://github.com/D3SOX/hypeddit-soundcloud-downloader"

Variants == {"cdp", "pw"}

\* How close() reaches the browser: `this.browser?.close()` or
\* `this.browser.close()`.
CloseBuilds == {"optional", "direct"}

\* No downloader object is driven call by call.
NoLife == [build |-> "none", browser |-> "undefined", calls |-> <<>>]

\* runDownloadProcess of the web server, or the top-level code of the CLI.
Callers == {"server", "cli"}

\* The keys of the dispatch table `gates`.
gates == {"email", "sc", "ig", "sp", "dw"}

gateLabels ==
    [t \in gates |->
        CASE t = "email" -> "Email"
          [] t = "sc" -> "SoundCloud"
          [] t = "ig" -> "Instagram"
          [] t = "sp" -> "Spotify"
          [] t = "dw" -> "Download"]

\* First class-list tokens a step div of the page can carry: the five gate
\* kinds, a kind without a handler (the Facebook gate, which the selectors
\* know but the dispatch table does not), the empty string and null.
\* Names that a JavaScript object inherits (toString, constructor) are not
\* part of the page vocabulary modelled here.
Tokens == gates \cup {"fb", "", null}

Range(f) == {f[i] : i \in DOMAIN f}

RECURSIVE SeqsUpTo(_, _)
SeqsUpTo(S, n) ==
    IF n = 0 THEN {<<>>}
    ELSE LET shorter == SeqsUpTo(S, n - 1)
         IN shorter \cup {Append(s, x) : s \in {q \in shorter : Len(q) = n - 1}, x \in S}

\* The tokens of the pages that a restarted job meets.
RetryTokens == {"email", "dw", "fb"}

\* What page.evaluate can return for the step container's children.
GateSeqs(sc) ==
    IF sc = "retry" THEN SeqsUpTo(RetryTokens, MaxHandledGates)
    ELSE SeqsUpTo(Tokens, IF sc = "traversal" THEN MaxGates
                          ELSE IF sc = "gates" THEN MaxHandledGates
                          ELSE MaxDownloadGates)

\* The guids the browser can hand out.
TransferBudget(sc) == IF sc = "download" THEN MaxTransfers ELSE 1
Transfers == 1..MaxTransfers

\* suggestedFilename of a transfer: distinct transfers carry distinct names.
SuggestedFilename(t) == IF t = 1 THEN "track.wav" ELSE IF t = 2 THEN "other.mp3" ELSE "more.flac"

NoError == <<>>

\* ------------------------------------------------------------- variables
VARIABLES
    scope,            \* which inputs this run draws from
    caller,           \* who runs the downloader: the web server or the CLI
    variant,          \* which build of HypedditDownloader the job layer runs
    pc,               \* position of runDownloadProcess / downloadAudio
    gateNames,        \* downloadAudio: the discovered token sequence
    idx,              \* downloadAudio: position of the for-of loop (1-based)
    running,          \* positions whose handler promise has not settled
    invoked,          \* positions whose handler was invoked, in invocation order
    handlerErr,       \* error thrown by the handler awaited at idx (NoError: none)
    daResult,         \* settlement of the promise downloadAudio returned
    downloadFilename, \* HypedditDownloader.downloadFilename
    progressLog,      \* events handed to the progress callback, in order
    dwPc,             \* position of handleDownloadSlide
    listening,        \* download listeners registered (CDP) / waitForEvent pending (PW)
    timer,            \* the 10 s fallback timer of the CDP build
    clicks,           \* clicks on the download button in this handling
    clickDone,        \* the first click's promise has resolved
    downloadGuid,     \* CDP build: local downloadGuid (0: null)
    resolved,         \* CDP build: downloadCompletePromise resolved
    captured,         \* PW build: the Download waitForEvent resolved with (0: none)
    tr,               \* browser: state of every transfer
    nProgress,        \* browser: inProgress events reported so far
    browserOpen,      \* the browser session launched by initialize is open
    pageOpen,         \* the page downloadAudio opened is open
    hypedditDownloader, \* server.ts module-level reference is non-null
    job,              \* the job record: progress stage, error, downloadFilename
    caught,           \* runDownloadProcess: the error its catch block handles
    crashed,          \* the process died of an uncaught error
    obs,              \* observations of the run, for stating properties
    hs,               \* the sc, ig or sp handler invoked last: the page it found,
                      \* its position and what it did
    cookieFile,       \* spotify-cookies.json exists in the project root
    spotifyCookiesExists, \* HypedditDownloader.spotifyCookiesExists
    cookiesData,      \* loadCookies: the records parsed from the cookie file
    loadedCookies,    \* loadCookies: whether it has returned, and the cookies
    life,             \* a downloader object driven call by call: its browser field
                      \* and the outcome of every call made on it
    runs,             \* server: every call of runDownloadProcess, by number
    sess,             \* server: browser of the downloader each run created
    ref,              \* server: module-level hypedditDownloader (0: null)
    jobStage,         \* server: progress stage of every job
    obsJ,             \* server: outcome of the last start request per job
    pl,               \* prepareLogins: its position, what it did, its error
    store,            \* JobStore: the updates of one job, its listener set, and
                      \* the event streams of the clients
    meta              \* POST /api/job/:id/metadata: its position and last response

runVars == <<scope, caller, variant, pc, gateNames, idx, running, invoked, handlerErr, daResult,
          downloadFilename, progressLog, dwPc, listening, timer, clicks, clickDone,
          downloadGuid, resolved, captured, tr, nProgress, browserOpen, pageOpen,
          hypedditDownloader, job, caught, crashed, obs, hs, cookieFile,
          spotifyCookiesExists, cookiesData, loadedCookies>>

\* State outside the single run the actions of runDownloadProcess act on.
jobVars == <<runs, sess, ref, jobStage, obsJ>>

\* State of the routines followed on their own.
sideVars == <<pl, store, meta>>

auxVars == <<life, jobVars, sideVars>>

vars == <<runVars, auxVars>>

engineVars == <<gateNames, idx, running, invoked, handlerErr, daResult>>
dwVars == <<dwPc, listening, timer, clicks, clickDone, downloadGuid, resolved, captured>>
browserVars == <<tr, nProgress>>
sessionVars == <<browserOpen, pageOpen, hypedditDownloader>>
fileVars == <<cookiesData, loadedCookies>>
cookieVars == <<cookieFile, spotifyCookiesExists, fileVars>>

\* ---------------------------------------------------------------- helpers
\* JavaScript truthiness of a string-or-null value.
Truthy(s) == s # null /\ s # ""

\* Mutant: only null is skipped, as by `if (gateName === null) continue;`.
Falsy_NullOnly(t) == t = null

\* `if (!gateName) continue;`
Falsy(t) == ~Truthy(t)

\* `const gate = gates[gateName]; if (!gate) throw ...`
HasHandler(t) == t \in gates

\* `gateLabels[gateName] || gateName`
GateLabel(t) == IF t \in DOMAIN gateLabels THEN gateLabels[t] ELSE t

\* Mutant: the error message does not interpolate the token.
NoHandlerMessage_NoToken(t) ==
    <<"No handler found for gate", ". Please create an issue about this on ",
      REPO_URL, "/issues">>

\* The template literal of the unknown-gate error, as its parts.
NoHandlerMessage(t) ==
    <<"No handler found for gate ", t, ". Please create an issue about this on ",
      REPO_URL, "/issues">>

Pending == [kind |-> "pending", value |-> null, error |-> NoError]
Resolved(v) == [kind |-> "resolved", value |-> v, error |-> NoError]
Rejected(e) == [kind |-> "rejected", value |-> null, error |-> e]

\* Mutant: the tokens are validated before the loop handles any of them, so
\* that the loop goes straight to the first token without handler.
NextIdx_ValidatesFirst(names, from) ==
    LET rest == {k \in 1..Len(names) : k >= from /\ ~Falsy(names[k])}
        bad == {k \in rest : ~HasHandler(names[k])}
        first(S) == CHOOSE x \in S : \A y \in S : x <= y
    IN IF bad # {} THEN first(bad)
       ELSE IF rest # {} THEN first(rest)
       ELSE Len(names) + 1

\* First position at or after `from` whose token the loop does not skip
\* (Len + 1 when there is none): the loop's `continue` takes no await.
RECURSIVE NextIdx(_, _)
NextIdx(names, from) ==
    IF from > Len(names) THEN Len(names) + 1
    ELSE IF Falsy(names[from]) THEN NextIdx(names, from + 1)
    ELSE from

\* emitProgress: the callback the job layer installed forwards the event to
\* jobStore.updateProgress, which replaces job.progress.
ProgressEvent_NoGate(stage, message, percent, gate) ==
    [stage |-> stage, message |-> message, percent |-> percent, currentGate |-> null]

ProgressEvent(stage, message, percent, gate) ==
    [stage |-> stage, message |-> message, percent |-> percent, currentGate |-> gate]

\* jobStore.notifyListeners with the listener of GET /api/job/:id/events:
\* the new progress is put on the client's stream, and with the stage
\* 'ready' or 'error' the listener is unsubscribed and the stream closed.
notifyListeners(j) ==
    IF ~j.listener THEN j
    ELSE [j EXCEPT !.delivered = j.stage,
                   !.listener = j.stage \notin {"ready", "error"},
                   !.stream = IF j.stage \in {"ready", "error"} THEN "closed" ELSE @]

emitProgress(stage, message, percent, gate) ==
    IF caller = "server"
    THEN /\ progressLog' = Append(progressLog, ProgressEvent(stage, message, percent, gate))
         /\ job' = notifyListeners([job EXCEPT !.stage = stage, !.message = message])
    ELSE \* `if (this.progressCallback)`: the CLI installs none
         UNCHANGED <<progressLog, job>>

\* jobStore.updateProgress called by the job layer itself.
updateProgress(j, stage, message) ==
    notifyListeners([j EXCEPT !.stage = stage, !.message = message])

\* jobStore.setError
setError(j, error) ==
    notifyListeners([j EXCEPT !.error = error, !.stage = "error", !.message = error])

\* Mutant: the handler's promise is not awaited, as by `gate(page);`.
GateSettled_NoAwait(k) == TRUE

\* `await gate(page)` resumes once the promise of the handler at k settled.
GateSettled(k) == k \notin running

\* Mutant: the job layer does not check the result.
NoFileReceived_Unchecked(f) == FALSE

\* `if (!downloadFilename)` of runDownloadProcess.
NoFileReceived(f) == ~Truthy(f)

\* Mutant: the button is clicked before the listeners are registered.
DwSetupOrder_ClickFirst == <<"click", "listen">>

\* handleDownloadSlide: order of the synchronous set-up after the last await
\* before the click: listeners (client.on / waitForEvent) first, click second.
DwSetupOrder == <<"listen", "click">>

\* Mutant: the listener does not compare the identifier.
TracksEvent_AnyGuid(guid) == Truthy(downloadFilename)

\* Browser.downloadProgress listener: `event.guid === downloadGuid &&
\* this.downloadFilename`.
TracksEvent(guid) == guid = downloadGuid /\ Truthy(downloadFilename)

\* Mutant: the timer clicks again whatever it finds.
TimerReclicks_Always == TRUE

\* The fallback timer's `if (!downloadGuid)`.
TimerReclicks == downloadGuid = 0

\* ------------------------------------------------------------ loadCookies
\* An optional field that the record of the cookie file does not have.
undefined == "undefined"

\* LocalCookieData: name, value and domain are plain strings copied as they
\* are; path and sameSite are optional strings.
LocalCookieData ==
    [name : {"sid"},
     path : {undefined, "", "/", "/charts"},
     sameSite : {undefined, "", "unspecified", "lax", "no_restriction", "Strict"}]

\* JavaScript truthiness of an optional string.
TruthyField(v) == v # undefined /\ v # ""

\* Mutant: the path is copied as it is.
CookiePath_Copied(cookie) == cookie.path

\* `path: cookie.path || '/'`
CookiePath(cookie) == IF TruthyField(cookie.path) THEN cookie.path ELSE "/"

\* Mutant: only the literal 'unspecified' is dropped.
KeepsSameSite_Defined(cookie) == cookie.sameSite \notin {undefined, "unspecified"}

\* `if (cookie.sameSite && cookie.sameSite !== 'unspecified')`
KeepsSameSite(cookie) == TruthyField(cookie.sameSite) /\ cookie.sameSite # "unspecified"

\* A record without fields.
NoFields == [f \in {} |-> undefined]

\* The body of the map callback of loadCookies: the CookieData built for
\* one record.
PuppeteerCookie(cookie) ==
    [name |-> cookie.name, path |-> CookiePath(cookie)]
        @@ (IF KeepsSameSite(cookie) THEN [sameSite |-> cookie.sameSite] ELSE NoFields)

\* ------------------------------------------------------------------- Init
\* The gates whose handlers are followed step by step (in the scope "gates").
DetailedGates == {"sc", "ig", "sp"}

\* The builds of the popup handling: the handler polls until the popup
\* window has closed, or (an older build) returns once it has clicked.
HandlerBuilds == {"polls_close", "no_poll"}

NoHandler == [gate |-> "none", k |-> 0, pc |-> "off", skipper |-> FALSE,
              undone |-> 0, controls |-> 0, noPopup |-> FALSE, acts |-> <<>>, build |-> "polls_close",
              popup |-> "none"]

\* What a handler invoked at position k can find: the skip control present
\* or not, the follow buttons not yet done; and which build of the popup
\* handling runs.
HandlerStarts(g, k) ==
    {[gate |-> g, k |-> k, pc |-> "probe", skipper |-> sk, undone |-> n, controls |-> n,
      noPopup |-> FALSE, acts |-> <<>>, build |-> b, popup |-> "none"] :
        sk \in BOOLEAN,
        n \in IF g = "ig" THEN 0..MaxFollowButtons ELSE {0},
        b \in IF g = "ig" THEN {"polls_close"} ELSE HandlerBuilds}

\* The jobs of the store and the calls of runDownloadProcess.
Jobs == {"jobA", "jobB"}
Runs == 1..MaxRuns

NoRun == [job |-> "none", pc |-> "none", target |-> 0, closing |-> 0, result |-> "none"]

\* JobStore.create leaves every job at stage 'pending'; no run was started.
NoJobs ==
    /\ runs = [r \in Runs |-> NoRun]
    /\ sess = [r \in Runs |-> "none"]
    /\ ref = 0
    /\ jobStage = [j \in Jobs |-> "pending"]
    /\ obsJ = [j \in Jobs |-> "none"]

InitObs == [lostAfterClick |-> FALSE,
            cancelHandled |-> FALSE,
            timerSaw |-> -1,
            fallbackNoStart |-> FALSE,
            starts |-> <<>>,
            accepted |-> 0,
            lastEvent |-> [guid |-> 0, state |-> "none"],
            dwHandlings |-> 0,
            foreign |-> FALSE,
            attempt |-> 1,
            failedAt |-> 0]

\* The clients of GET /api/job/:id/events; each request subscribes a listener
\* of its own.
Clients == {"c1", "c2"}

\* JobStore.create: progress {stage: 'pending'}; no listener is subscribed
\* and no stream is open.
NoListeners ==
    [made |-> <<>>,
     listeners |-> {},
     stream |-> [c \in Clients |-> "none"],
     received |-> [c \in Clients |-> <<>>],
     from |-> [c \in Clients |-> 0],
     unsubscribed |-> [c \in Clients |-> 0],
     aborted |-> [c \in Clients |-> FALSE]]

\* prepareLogins has not been called.
NoLogins == [pc |-> "off", captchaFrameFound |-> FALSE, acts |-> <<>>, error |-> NoError]

InitState ==
    /\ pc = "idle"
    /\ hs = NoHandler
    /\ cookieFile \in (IF scope = "gates" THEN BOOLEAN ELSE {FALSE})
    /\ spotifyCookiesExists \in (IF scope = "logins" THEN BOOLEAN ELSE {FALSE})
    /\ pl = [NoLogins EXCEPT !.pc = IF scope = "logins" THEN "goto" ELSE "off"]
    /\ store = NoListeners
    /\ meta = [pc |-> "idle", response |-> 0]
    /\ cookiesData \in (IF scope = "cookies" THEN SeqsUpTo(LocalCookieData, MaxCookies)
                        ELSE {<<>>})
    /\ loadedCookies = [returned |-> FALSE, value |-> <<>>]
    /\ gateNames = <<>>
    /\ idx = 0
    /\ running = {}
    /\ invoked = <<>>
    /\ handlerErr = NoError
    /\ daResult = Pending
    /\ downloadFilename = null
    /\ progressLog = <<>>
    /\ dwPc = "off"
    /\ listening = FALSE
    /\ timer = "unset"
    /\ clicks = 0
    /\ clickDone = FALSE
    /\ downloadGuid = 0
    /\ resolved = FALSE
    /\ captured = 0
    /\ tr = [t \in Transfers |-> "none"]
    /\ nProgress = 0
    /\ browserOpen = FALSE
    /\ pageOpen = FALSE
    /\ hypedditDownloader = FALSE
    /\ job = [stage |-> "pending", message |-> <<"Job created">>, error |-> NoError,
              downloadFilename |-> null, listener |-> FALSE, stream |-> "none",
              delivered |-> null, aborted |-> FALSE, artworkBuffer |-> FALSE,
              outputFilename |-> null]
    /\ caught = NoError
    /\ crashed = FALSE
    /\ obs = InitObs

InitRun ==
    /\ variant \in Variants
    /\ InitState
    /\ life = NoLife
    /\ NoJobs

Init == scope = "traversal" /\ caller = "server" /\ InitRun

InitDownload == scope = "download" /\ caller = "server" /\ InitRun

InitCallers == scope = "callers" /\ caller \in Callers /\ InitRun

\* ------------------------------------------------- the percent of an event
\* A percent value as an exact fraction.
Fraction(num, den) == [num |-> num, den |-> den]

\* The Playwright build's emitProgress(stage, message, extra) has no
\* percent.
NoPercent == Fraction(0, 0)

\* A literal percent of the CDP build.
Percent(p) == IF variant = "cdp" THEN Fraction(p, 1) ELSE NoPercent

\* `gateNames.filter(Boolean).length`
TotalGates(names) == Cardinality({k \in 1..Len(names) : Truthy(names[k])})

\* `30 + gateIndex * progressPerGate`, with progressPerGate
\* `totalGates > 0 ? 50 / totalGates : 50`.
GatePercent(gateIndex, totalGates) ==
    IF variant # "cdp" THEN NoPercent
    ELSE IF totalGates > 0 THEN Fraction(30 * totalGates + gateIndex * 50, totalGates)
    ELSE Fraction(30 + gateIndex * 50, 1)

\* `76 + downloadPercent * 8`, with downloadPercent
\* `totalBytes > 0 ? receivedBytes / totalBytes : 0`.
DownloadPercent(receivedBytes, totalBytes) ==
    IF totalBytes > 0 THEN Fraction(76 * totalBytes + receivedBytes * 8, totalBytes)
    ELSE Fraction(76, 1)

\* ------------------------------------------------- the traversal's for-loop
\* The loop from position `from` up to its next await: skip the empty
\* tokens, then leave the loop, throw for a token without handler, or emit
\* the gate's progress event and invoke its handler.
LoopFrom(names, from) ==
    LET k == NextIdx(names, from) IN
    /\ gateNames' = names
    /\ idx' = k
    /\ handlerErr' = NoError
    /\ IF k <= Len(names) /\ HasHandler(names[k]) /\ scope = "gates" /\ names[k] \in DetailedGates
       THEN hs' \in HandlerStarts(names[k], k)
       ELSE hs' = hs
    /\ IF k > Len(names)
       THEN \* `await page.close()`
            /\ pc' = "page_close"
            /\ UNCHANGED <<running, invoked, daResult, progressLog, job, dwPc, caught>>
       ELSE IF ~HasHandler(names[k])
       THEN /\ daResult' = Rejected(NoHandlerMessage(names[k]))
            /\ caught' = NoHandlerMessage(names[k])
            /\ pc' = "catch"
            /\ UNCHANGED <<running, invoked, progressLog, job, dwPc>>
       ELSE /\ emitProgress("handling_gates",
                            <<"Handling ", GateLabel(names[k]), " gate...">>,
                            GatePercent(Len(invoked), TotalGates(names)), names[k])
            /\ running' = running \cup {k}
            /\ invoked' = Append(invoked, k)
            /\ dwPc' = IF names[k] = "dw" THEN "button" ELSE dwPc
            /\ pc' = "gate"
            /\ UNCHANGED <<daResult, caught>>

\* The process runs: no uncaught error has killed it.
Alive == ~crashed

\* ---------------------------------------------------------- the job layer
\* POST /api/job/:id/start accepts the job and calls runDownloadProcess,
\* which runs up to `await hypedditDownloader.initialize()`.
Start ==
    /\ Alive
    /\ pc = "idle"
    /\ caller = "server" => job.stage \in {"pending", "waiting_hypeddit", "error"}
    /\ job' = IF caller = "server"
              THEN updateProgress(job, "initializing_browser", <<"Launching browser...">>)
              ELSE job
    /\ hypedditDownloader' = TRUE
    /\ downloadFilename' = null
    /\ spotifyCookiesExists' = FALSE
    /\ pc' = "initialize"
    /\ UNCHANGED <<auxVars, cookieFile, fileVars, hs, scope, caller, variant, engineVars, progressLog, dwVars, browserVars, browserOpen,
                   pageOpen, caught, crashed, obs>>

\* initialize() resolves: the job layer reports the gates stage and calls
\* downloadAudio, which emits its first event and awaits browser.newPage().
InitializeOk ==
    /\ Alive
    /\ pc = "initialize"
    /\ browserOpen' = TRUE
    /\ spotifyCookiesExists' = cookieFile
    /\ emitProgress("handling_gates", <<"Navigating to Hypeddit post...">>, Percent(25), null)
    /\ pc' = "navigate"
    /\ UNCHANGED <<auxVars, cookieFile, fileVars, hs, scope, caller, variant, engineVars, downloadFilename, dwVars, browserVars, pageOpen,
                   hypedditDownloader, caught, crashed, obs>>

\* initialize() rejects: the launch failed (no browser), or the browser was
\* launched and loading the cookie file failed.
InitializeFails ==
    /\ Alive
    /\ pc = "initialize"
    /\ \E launched \in BOOLEAN :
          /\ browserOpen' = launched
          /\ caught' = IF launched THEN <<"cookie file could not be loaded">>
                       ELSE <<"browser could not be launched">>
    /\ pc' = "catch"
    /\ UNCHANGED <<auxVars, cookieVars, hs, scope, caller, variant, engineVars, downloadFilename, progressLog, dwVars, browserVars,
                   pageOpen, hypedditDownloader, job, crashed, obs>>

\* Mutant: the loop of a restarted job resumes at the position that failed.
FirstPosition_Resumes(failedAt) == IF failedAt > 0 THEN failedAt ELSE 1

\* `for (const gateName of gateNames)`: every call starts at the first
\* token, wherever an earlier call of the same job failed.
FirstPosition(failedAt) == 1

\* downloadAudio: new page, navigation, start-process click, gate discovery;
\* the loop then runs up to its first await.
Navigate ==
    /\ Alive
    /\ pc = "navigate"
    /\ pageOpen' = TRUE
    /\ \E names \in GateSeqs(scope) : LoopFrom(names, FirstPosition(obs.failedAt))
    /\ UNCHANGED <<auxVars, cookieVars, scope, caller, variant, downloadFilename, listening, timer, clicks, clickDone,
                   downloadGuid, resolved, captured, browserVars, browserOpen,
                   hypedditDownloader, crashed, obs>>

\* Navigation or a selector wait fails: downloadAudio rejects, its page
\* stays open.
NavigateFails ==
    /\ Alive
    /\ pc = "navigate"
    /\ pageOpen' = TRUE
    /\ daResult' = Rejected(<<"navigation failed">>)
    /\ caught' = <<"navigation failed">>
    /\ pc' = "catch"
    /\ UNCHANGED <<auxVars, cookieVars, hs, scope, caller, variant, gateNames, idx, running, invoked, handlerErr, downloadFilename,
                   progressLog, dwVars, browserVars, browserOpen, hypedditDownloader, job,
                   crashed, obs>>

\* Mutant: the loop catches the handler's error and goes on.
GateAwaited_Swallows ==
    /\ Alive
    /\ pc = "gate"
    /\ GateSettled(idx)
    /\ pc' = "settle"
    /\ UNCHANGED <<auxVars, cookieVars, hs, scope, caller, variant, gateNames, idx, running, invoked, handlerErr, daResult,
                   caught, downloadFilename, progressLog, dwVars, browserVars, sessionVars,
                   job, crashed, obs>>

\* `await gate(page)` resumes: the handler's error is rethrown, or the loop
\* awaits its settle delay.
GateAwaited ==
    /\ Alive
    /\ pc = "gate"
    /\ GateSettled(idx)
    /\ IF handlerErr # NoError
       THEN /\ daResult' = Rejected(handlerErr)
            /\ caught' = handlerErr
            /\ pc' = "catch"
       ELSE /\ pc' = "settle"
            /\ UNCHANGED <<daResult, caught>>
    /\ UNCHANGED <<auxVars, cookieVars, hs, scope, caller, variant, gateNames, idx, running, invoked, handlerErr, downloadFilename,
                   progressLog, dwVars, browserVars, sessionVars, job, crashed, obs>>

\* `await timeout(1_000)` is over: the loop goes on with the next token.
Settle ==
    /\ Alive
    /\ pc = "settle"
    /\ LoopFrom(gateNames, idx + 1)
    /\ UNCHANGED <<auxVars, cookieVars, scope, caller, variant, downloadFilename, listening, timer, clicks, clickDone,
                   downloadGuid, resolved, captured, browserVars, sessionVars, crashed, obs>>

\* Mutant: the engine closes the whole browser session on its way out.
PageClose_ClosesSession ==
    /\ Alive
    /\ pc = "page_close"
    /\ pageOpen' = FALSE
    /\ browserOpen' = FALSE
    /\ daResult' = Resolved(downloadFilename)
    /\ pc' = "srv_close"
    /\ UNCHANGED <<auxVars, cookieVars, hs, scope, caller, variant, gateNames, idx, running, invoked, handlerErr, downloadFilename,
                   progressLog, dwVars, browserVars, hypedditDownloader, job, caught, crashed,
                   obs>>

\* `await page.close(); return this.downloadFilename;` and the job layer
\* starts `await hypedditDownloader.close()`.
PageClose ==
    /\ Alive
    /\ pc = "page_close"
    /\ pageOpen' = FALSE
    /\ daResult' = Resolved(downloadFilename)
    /\ pc' = "srv_close"
    /\ UNCHANGED <<auxVars, cookieVars, hs, scope, caller, variant, gateNames, idx, running, invoked, handlerErr, downloadFilename,
                   progressLog, dwVars, browserVars, browserOpen, hypedditDownloader, job,
                   caught, crashed, obs>>

\* close() resolved on the success path: no file is the error state,
\* otherwise the file is recorded and the artwork fetched.
SrvClose ==
    /\ Alive
    /\ pc = "srv_close"
    /\ browserOpen' = FALSE
    /\ hypedditDownloader' = (caller = "cli")
    /\ IF caller = "cli"
       THEN \* `if (downloadFilename) { await fetchArtwork(...); ... }`
            /\ pc' = IF NoFileReceived(daResult.value) THEN "done" ELSE "artwork"
            /\ UNCHANGED job
       ELSE IF NoFileReceived(daResult.value)
       THEN /\ job' = setError(job, <<"Download failed - no file received">>)
            /\ pc' = "done"
       ELSE \E hasArtwork \in BOOLEAN :
            LET j == [job EXCEPT !.downloadFilename = daResult.value] IN
            IF hasArtwork
            THEN /\ job' = updateProgress(j, "processing_audio", <<"Fetching artwork...">>)
                 /\ pc' = "artwork"
            ELSE /\ job' = updateProgress(j, "ready", <<"Ready for metadata editing">>)
                 /\ pc' = "done"
    /\ UNCHANGED <<auxVars, cookieVars, hs, scope, caller, variant, engineVars, downloadFilename, progressLog, dwVars, browserVars,
                   pageOpen, caught, crashed, obs>>

\* fetchArtwork resolved.
ArtworkOk ==
    /\ Alive
    /\ pc = "artwork"
    /\ job' = IF caller = "server"
              THEN updateProgress([job EXCEPT !.artworkBuffer = TRUE],
                                  "ready", <<"Ready for metadata editing">>)
              ELSE job
    /\ pc' = "done"
    /\ UNCHANGED <<auxVars, cookieVars, hs, scope, caller, variant, engineVars, downloadFilename, progressLog, dwVars, browserVars,
                   sessionVars, caught, crashed, obs>>

\* fetchArtwork rejected.
ArtworkFails ==
    /\ Alive
    /\ pc = "artwork"
    /\ caught' = <<"artwork could not be fetched">>
    /\ pc' = "catch"
    /\ UNCHANGED <<auxVars, cookieVars, hs, scope, caller, variant, engineVars, downloadFilename, progressLog, dwVars, browserVars,
                   sessionVars, job, crashed, obs>>

\* The catch block: close the downloader if the reference is set, then
\* record the error.  The CLI has no catch block: the rejected top-level
\* await ends the program.
Catch ==
    /\ Alive
    /\ pc = "catch"
    /\ IF caller = "cli"
       THEN /\ pc' = "done"
            /\ UNCHANGED job
       ELSE IF hypedditDownloader
       THEN /\ pc' = "catch_close"
            /\ UNCHANGED job
       ELSE /\ job' = setError(job, caught)
            /\ pc' = "done"
    /\ UNCHANGED <<auxVars, cookieVars, hs, scope, caller, variant, engineVars, downloadFilename, progressLog, dwVars, browserVars,
                   sessionVars, caught, crashed, obs>>

\* close() resolved inside the catch block.
CatchClose ==
    /\ Alive
    /\ pc = "catch_close"
    /\ browserOpen' = FALSE
    /\ pageOpen' = FALSE
    /\ hypedditDownloader' = FALSE
    /\ job' = setError(job, caught)
    /\ pc' = "done"
    /\ UNCHANGED <<auxVars, cookieVars, hs, scope, caller, variant, engineVars, downloadFilename, progressLog, dwVars, browserVars,
                   caught, crashed, obs>>

\* ------------------------------------- the email, sc, ig and sp handlers
\* The handler at position k is followed step by step.
Detailed(k) == scope = "gates" /\ gateNames[k] \in DetailedGates

\* A handler other than the download handler settles: it returns, or one
\* of its waits fails and it throws.
HandlerReturns ==
    /\ Alive
    /\ \E k \in running :
        /\ gateNames[k] # "dw"
        /\ ~Detailed(k)
        /\ running' = running \ {k}
        /\ UNCHANGED <<auxVars, cookieVars, hs, scope, caller, variant, pc, gateNames, idx, invoked, handlerErr, daResult,
                       downloadFilename, progressLog, dwVars, browserVars, sessionVars, job,
                       caught, crashed, obs>>

HandlerThrows ==
    /\ Alive
    /\ \E k \in running :
        /\ gateNames[k] # "dw"
        /\ ~Detailed(k)
        /\ running' = running \ {k}
        /\ handlerErr' = <<gateNames[k], " gate failed">>
        /\ UNCHANGED <<auxVars, cookieVars, hs, scope, caller, variant, pc, gateNames, idx, invoked, daResult, downloadFilename,
                       progressLog, dwVars, browserVars, sessionVars, job, caught, crashed,
                       obs>>

\* ------------------------------------------------- handleDownloadSlide
\* The position of the download handler that is running.
DwIdx == CHOOSE k \in running : gateNames[k] = "dw"

DwRunning == \E k \in running : gateNames[k] = "dw"

\* The handler throws `error`: its promise rejects.  Listeners and the
\* timer it set up stay as they are.
DwThrow(error) ==
    /\ running' = running \ {DwIdx}
    /\ handlerErr' = error
    /\ dwPc' = "off"

\* The download button became visible: 'Preparing download...' is emitted
\* and the handler awaits its set-up call (createCDPSession and
\* Browser.setDownloadBehavior, or mkdir).
DwButton ==
    /\ Alive
    /\ dwPc = "button"
    /\ DwRunning
    /\ emitProgress("downloading", <<"Preparing download...">>, Percent(75), null)
    /\ dwPc' = "prep"
    /\ UNCHANGED <<auxVars, cookieVars, hs, scope, caller, variant, pc, engineVars, downloadFilename, listening, timer, clicks,
                   clickDone, downloadGuid, resolved, captured, browserVars, sessionVars,
                   caught, crashed, obs>>

\* waitForSelector(DW_DOWNLOAD_BUTTON) timed out.
DwButtonFails ==
    /\ Alive
    /\ dwPc = "button"
    /\ DwRunning
    /\ DwThrow(<<"download button not found">>)
    /\ UNCHANGED <<auxVars, cookieVars, hs, scope, caller, variant, pc, gateNames, idx, invoked, daResult, downloadFilename,
                   progressLog, listening, timer, clicks, clickDone, downloadGuid, resolved,
                   captured, browserVars, sessionVars, job, caught, crashed, obs>>

\* The set-up call resolved: fresh local state, then the first operation
\* of the synchronous set-up.  A timer an earlier handling that returned left
\* armed finds that handling's downloadGuid set and does nothing.
DwPrep ==
    /\ Alive
    /\ dwPc = "prep"
    /\ DwRunning
    /\ downloadGuid' = 0
    /\ resolved' = FALSE
    /\ captured' = 0
    /\ clickDone' = FALSE
    /\ listening' = (DwSetupOrder[1] = "listen")
    /\ clicks' = IF DwSetupOrder[1] = "click" THEN 1 ELSE 0
    /\ timer' = IF DwSetupOrder[1] = "click" /\ variant = "cdp" THEN "armed" ELSE "unset"
    /\ dwPc' = "s2"
    /\ obs' = [obs EXCEPT !.dwHandlings = @ + 1, !.timerSaw = -1]
    /\ UNCHANGED <<auxVars, cookieVars, hs, scope, caller, variant, pc, engineVars, downloadFilename, progressLog, browserVars,
                   sessionVars, job, caught, crashed>>

\* The second operation of the set-up; the handler then awaits
\* Promise.all of the click and the download.
DwSetup2 ==
    /\ Alive
    /\ dwPc = "s2"
    /\ DwRunning
    /\ listening' = (listening \/ DwSetupOrder[2] = "listen")
    /\ clicks' = IF DwSetupOrder[2] = "click" THEN clicks + 1 ELSE clicks
    /\ timer' = IF DwSetupOrder[2] = "click" /\ variant = "cdp" THEN "armed" ELSE timer
    /\ dwPc' = "wait"
    /\ UNCHANGED <<auxVars, cookieVars, hs, scope, caller, variant, pc, engineVars, downloadFilename, progressLog, clickDone,
                   downloadGuid, resolved, captured, browserVars, sessionVars, job, caught,
                   crashed, obs>>

\* page.click resolved.
DwClickDone ==
    /\ Alive
    /\ dwPc = "wait"
    /\ ~clickDone
    /\ clickDone' = TRUE
    /\ UNCHANGED <<auxVars, cookieVars, hs, scope, caller, variant, pc, engineVars, downloadFilename, progressLog, dwPc, listening,
                   timer, clicks, downloadGuid, resolved, captured, browserVars, sessionVars,
                   job, caught, crashed, obs>>

\* page.click rejected: Promise.all rejects and the handler throws.
DwClickFails ==
    /\ Alive
    /\ dwPc = "wait"
    /\ ~clickDone
    /\ DwThrow(<<"click on the download button failed">>)
    /\ UNCHANGED <<auxVars, cookieVars, hs, scope, caller, variant, pc, gateNames, idx, invoked, daResult, downloadFilename,
                   progressLog, listening, timer, clicks, clickDone, downloadGuid, resolved,
                   captured, browserVars, sessionVars, job, caught, crashed, obs>>

\* CDP build: click and downloadCompletePromise both resolved; the handler
\* awaits client.detach().
DwAllSettled ==
    /\ Alive
    /\ variant = "cdp"
    /\ dwPc = "wait"
    /\ clickDone
    /\ resolved
    /\ dwPc' = "detach"
    /\ UNCHANGED <<auxVars, cookieVars, hs, scope, caller, variant, pc, engineVars, downloadFilename, progressLog, listening, timer,
                   clicks, clickDone, downloadGuid, resolved, captured, browserVars,
                   sessionVars, job, caught, crashed, obs>>

\* CDP build: the session is detached and the handler returns.
DwDetach ==
    /\ Alive
    /\ dwPc = "detach"
    /\ listening' = FALSE
    /\ running' = running \ {DwIdx}
    /\ dwPc' = "off"
    /\ UNCHANGED <<auxVars, cookieVars, hs, scope, caller, variant, pc, gateNames, idx, invoked, handlerErr, daResult,
                   downloadFilename, progressLog, timer, clicks, clickDone, downloadGuid,
                   resolved, captured, browserVars, sessionVars, job, caught, crashed, obs>>

\* CDP build: the 10 s timer fires.  With no transfer seen it clicks the
\* button again; on a page that is closed by then the click rejects inside
\* the timer callback, an unhandled rejection the runtime may die of.
TimerFires ==
    /\ Alive
    /\ timer = "armed"
    /\ timer' = "fired"
    /\ IF TimerReclicks
       THEN IF pageOpen /\ browserOpen
            THEN /\ clicks' = clicks + 1
                 /\ UNCHANGED crashed
            ELSE /\ crashed' \in BOOLEAN
                 /\ UNCHANGED clicks
       ELSE UNCHANGED <<clicks, crashed>>
    /\ obs' = [obs EXCEPT !.timerSaw = downloadGuid,
                          !.fallbackNoStart = @ \/ (downloadGuid = 0 /\ dwPc = "wait")]
    /\ UNCHANGED <<auxVars, cookieVars, hs, scope, caller, variant, pc, engineVars, downloadFilename, progressLog, dwPc, listening,
                   clickDone, downloadGuid, resolved, captured, browserVars, sessionVars,
                   job, caught>>

\* Playwright build: waitForEvent('download') timed out with no download.
PwEventTimeout ==
    /\ Alive
    /\ variant = "pw"
    /\ dwPc = "wait"
    /\ listening
    /\ captured = 0
    /\ listening' = FALSE
    /\ DwThrow(<<"Timeout exceeded while waiting for event download">>)
    /\ obs' = [obs EXCEPT !.fallbackNoStart = TRUE]
    /\ UNCHANGED <<auxVars, cookieVars, hs, scope, caller, variant, pc, gateNames, idx, invoked, daResult, downloadFilename,
                   progressLog, timer, clicks, clickDone, downloadGuid, resolved, captured,
                   browserVars, sessionVars, job, caught, crashed>>

\* Playwright build: the download event and the click both resolved; the
\* filename is recorded and the handler awaits download.saveAs.
PwBothSettled ==
    /\ Alive
    /\ variant = "pw"
    /\ dwPc = "wait"
    /\ captured # 0
    /\ clickDone
    /\ downloadFilename' = SuggestedFilename(captured)
    /\ emitProgress("downloading",
                    <<"Downloading ", SuggestedFilename(captured), "...">>, NoPercent, null)
    /\ dwPc' = "save"
    /\ UNCHANGED <<auxVars, cookieVars, hs, scope, caller, variant, pc, engineVars, listening, timer, clicks, clickDone,
                   downloadGuid, resolved, captured, browserVars, sessionVars, caught,
                   crashed, obs>>

\* Playwright build: saveAs resolved, the transfer completed.
PwSaved ==
    /\ Alive
    /\ variant = "pw"
    /\ dwPc = "save"
    /\ tr[captured] = "completed"
    /\ emitProgress("downloading", <<"Download complete">>, NoPercent, null)
    /\ running' = running \ {DwIdx}
    /\ dwPc' = "off"
    /\ obs' = [obs EXCEPT !.accepted = captured]
    /\ UNCHANGED <<auxVars, cookieVars, hs, scope, caller, variant, pc, gateNames, idx, invoked, handlerErr, daResult,
                   downloadFilename, listening, timer, clicks, clickDone, downloadGuid,
                   resolved, captured, browserVars, sessionVars, caught, crashed>>

\* Playwright build: saveAs rejected, the transfer was canceled.
PwSaveFails ==
    /\ Alive
    /\ variant = "pw"
    /\ dwPc = "save"
    /\ tr[captured] = "canceled"
    /\ DwThrow(<<"download.saveAs: canceled">>)
    /\ obs' = [obs EXCEPT !.cancelHandled = TRUE]
    /\ UNCHANGED <<auxVars, cookieVars, hs, scope, caller, variant, pc, gateNames, idx, invoked, daResult, downloadFilename,
                   progressLog, listening, timer, clicks, clickDone, downloadGuid, resolved,
                   captured, browserVars, sessionVars, job, caught, crashed>>

\* ------------------------------------------------------------ the browser
\* Download events reach the process while the handler awaits: the set-up
\* between its last await and the click runs without interruption.
DownloadEvents == dwPc \in {"wait", "detach", "save"}

\* The browser starts a transfer (guids in order of start) and fires its
\* transfer-start event: Browser.downloadWillBegin / page 'download'.
BrowserStart ==
    /\ Alive
    /\ browserOpen
    /\ pageOpen
    /\ DownloadEvents
    /\ \E t \in Transfers :
        /\ t <= TransferBudget(scope)
        /\ tr[t] = "none"
        /\ \A u \in Transfers : u < t => tr[u] # "none"
        /\ tr' = [tr EXCEPT ![t] = "started"]
        /\ IF variant = "cdp" /\ listening
           THEN \* the downloadWillBegin listener
                /\ downloadGuid' = t
                /\ downloadFilename' = SuggestedFilename(t)
                /\ emitProgress("downloading",
                                <<"Downloading ", SuggestedFilename(t), "...">>, Percent(76), null)
                /\ obs' = [obs EXCEPT !.starts = Append(@, t)]
                /\ UNCHANGED <<captured, listening>>
           ELSE IF variant = "pw" /\ listening
           THEN \* waitForEvent('download') resolves, once
                /\ captured' = t
                /\ listening' = FALSE
                /\ obs' = [obs EXCEPT !.starts = Append(@, t)]
                /\ UNCHANGED <<downloadGuid, downloadFilename, progressLog, job>>
           ELSE \* nobody listens
                /\ obs' = [obs EXCEPT !.lostAfterClick =
                              @ \/ (clicks >= 1 /\ obs.starts = <<>>)]
                /\ UNCHANGED <<downloadGuid, downloadFilename, progressLog, job, captured,
                               listening>>
    /\ UNCHANGED <<auxVars, cookieVars, hs, scope, caller, variant, pc, engineVars, dwPc, timer, clicks, clickDone, resolved,
                   nProgress, sessionVars, caught, crashed>>

\* The browser reports the state of a started transfer.  In the CDP build
\* the Browser.downloadProgress listener runs; the Playwright build has no
\* such listener (saveAs watches the captured download).
BrowserProgress ==
    /\ Alive
    /\ browserOpen
    /\ DownloadEvents
    /\ \E t \in Transfers, st \in {"inProgress", "completed", "canceled"} :
        /\ tr[t] = "started"
        /\ IF st = "inProgress"
           THEN /\ nProgress < MaxProgressEvents
                /\ nProgress' = nProgress + 1
                /\ UNCHANGED tr
           ELSE /\ tr' = [tr EXCEPT ![t] = st]
                /\ UNCHANGED nProgress
        /\ IF variant = "cdp" /\ listening /\ TracksEvent(t)
           THEN CASE st = "completed" ->
                       /\ emitProgress("downloading", <<"Download complete">>, Percent(85), null)
                       /\ resolved' = TRUE
                       /\ obs' = [obs EXCEPT !.lastEvent = [guid |-> t, state |-> st],
                                             !.accepted = IF resolved THEN @ ELSE t]
                       /\ UNCHANGED crashed
                  [] st = "inProgress" ->
                       /\ emitProgress("downloading", <<"Downloading... ", "MB">>,
                                       DownloadPercent(nProgress + 1, MaxProgressEvents + 1),
                                       null)
                       /\ obs' = [obs EXCEPT !.lastEvent = [guid |-> t, state |-> st]]
                       /\ UNCHANGED <<resolved, crashed>>
                  [] st = "canceled" ->
                       \* `throw` inside the listener: nothing awaits it; the
                       \* runtime logs the uncaught error or dies of it.
                       /\ crashed' \in BOOLEAN
                       /\ obs' = [obs EXCEPT !.lastEvent = [guid |-> t, state |-> st],
                                             !.cancelHandled = TRUE]
                       /\ UNCHANGED <<resolved, progressLog, job>>
           ELSE /\ obs' = [obs EXCEPT !.lastEvent = [guid |-> t, state |-> st],
                                      !.foreign = @ \/ (variant = "cdp" /\ listening /\
                                                        downloadGuid \notin {0, t})]
                /\ UNCHANGED <<resolved, progressLog, job, crashed>>
    /\ UNCHANGED <<auxVars, cookieVars, hs, scope, caller, variant, pc, engineVars, downloadFilename, dwPc, listening, timer, clicks,
                   clickDone, downloadGuid, captured, sessionVars, caught>>

\* ---------------------------------------------------------- specification
Next ==
    \/ Start
    \/ InitializeOk
    \/ InitializeFails
    \/ Navigate
    \/ NavigateFails
    \/ GateAwaited
    \/ Settle
    \/ PageClose
    \/ SrvClose
    \/ ArtworkOk
    \/ ArtworkFails
    \/ Catch
    \/ CatchClose
    \/ HandlerReturns
    \/ HandlerThrows
    \/ DwButton
    \/ DwButtonFails
    \/ DwPrep
    \/ DwSetup2
    \/ DwClickDone
    \/ DwClickFails
    \/ DwAllSettled
    \/ DwDetach
    \/ TimerFires
    \/ PwEventTimeout
    \/ PwBothSettled
    \/ PwSaved
    \/ PwSaveFails
    \/ BrowserStart
    \/ BrowserProgress

Spec == Init /\ [][Next]_vars

SpecDownload == InitDownload /\ [][Next]_vars

SpecCallers == InitCallers /\ [][Next]_vars

\* ------------------------------------- the sc, ig and sp handlers, step by step
InitGates == scope = "gates" /\ caller = "server" /\ InitRun

\* Mutant: the Spotify handler does not look for its skip control.
SkipsGate_NotSpotify(g, skipper) == skipper /\ g # "sp"

\* `if (skipperSc)`, `if (skipperIg)`, `if (skipperSp)`
SkipsGate(g, skipper) == skipper

\* Mutant: every handler insists on its popup.
PopupRequired_Always(g) == TRUE

\* Mutant: only the SoundCloud handler insists on its popup.
PopupRequired_OnlySoundcloud(g) == g = "sc"

\* With no popup window in the bounded wait the SoundCloud and Instagram
\* handlers throw; the Spotify handler takes the app as already authorized.
PopupRequired(g) == g \in {"sc", "ig"}

WindowNotFound(g) ==
    IF g = "sc" THEN <<"SoundCloud window not found after clicking login button">>
    ELSE <<"Instagram window not found after clicking button">>

\* The handler followed step by step ends: it returns, or throws `error`.
GhEnd(error) ==
    /\ running' = running \ {hs.k}
    /\ handlerErr' = error

\* Mutant: the handler never asks for the cookies.
CookiesMissing_Ignored(exists) == FALSE

\* `if (!this.spotifyCookiesExists)`
CookiesMissing(exists) == ~exists

\* spotify-cookies.json is written or removed while the run is between
\* initialize and the gates.
CookieFileChanges ==
    /\ Alive
    /\ pc = "navigate"
    /\ cookieFile = spotifyCookiesExists
    /\ cookieFile' = ~cookieFile
    /\ UNCHANGED <<auxVars, spotifyCookiesExists, fileVars, hs, scope, caller, variant, pc, engineVars,
                   downloadFilename, progressLog, dwVars, browserVars, sessionVars, job,
                   caught, crashed, obs>>

GhUnchanged ==
    UNCHANGED <<auxVars, cookieVars, scope, caller, variant, pc, gateNames, idx, invoked, daResult,
                downloadFilename, progressLog, dwVars, browserVars, sessionVars, job, caught,
                crashed, obs>>

\* The Spotify handler awaits its login click and only then starts to wait
\* for the new window: the popup can be open before that wait begins.  The
\* SoundCloud and Instagram handlers start the wait with the click.
ClickOpensPopup(g) == IF g = "sp" THEN BOOLEAN ELSE {FALSE}

\* The wait of the Spotify handler can yield the popup window.  Playwright
\* build: waitForEvent('page') yields a window that opens during the wait.
\* CDP build: one scan of browser.pages() 1.5 s after the click yields a
\* window that is open then.
SpCanFind(v, popup) == IF v = "pw" THEN popup = "none" ELSE popup \in {"none", "open"}

\* That wait can come back without a window: the event wait times out; the
\* scan finds no open spotify.com window.
SpCanMiss(v, popup) == IF v = "pw" THEN TRUE ELSE popup # "open"

\* Mutant: the follow loop leaves the last follow button alone.
IgLoopEnds_OneLeft(undone) == undone <= 1

\* Mutant: the follow loop of the Instagram handler ends after any scan.
IgLoopEnds_Always(undone) == TRUE

\* `const button = await page.$(IG_STATUS_UNDONE_BUTTON); if (!button) break;`
IgLoopEnds(undone) == undone = 0

\* page.evaluate found the skip control or not.  With it the handler clicks
\* it; without it the handler goes for its login or follow control (the
\* Spotify handler only with its cookies; the Instagram handler only while
\* a follow button is not done) and waits for the popup.
GhProbe ==
    /\ Alive
    /\ hs.pc = "probe"
    /\ hs.k \in running
    /\ IF SkipsGate(hs.gate, hs.skipper)
       THEN /\ hs' = [hs EXCEPT !.pc = "skip_click", !.acts = Append(@, "click_skip")]
            /\ UNCHANGED <<running, handlerErr>>
       ELSE IF hs.gate = "sp" /\ CookiesMissing(spotifyCookiesExists)
       THEN /\ hs' = [hs EXCEPT !.pc = "threw", !.acts = Append(@, "check_cookies")]
            /\ GhEnd(<<"Spotify cookies are required to handle the Spotify gate.">>)
       ELSE IF hs.gate = "ig" /\ IgLoopEnds(hs.undone)
       THEN /\ hs' = [hs EXCEPT !.pc = "next_click", !.acts = Append(@, "click_next")]
            /\ UNCHANGED <<running, handlerErr>>
       ELSE /\ \E early \in ClickOpensPopup(hs.gate) :
                  hs' = [hs EXCEPT !.pc = "popup",
                                   !.popup = IF early THEN "open" ELSE "none",
                                   !.acts = @ \o (IF hs.gate = "sp" THEN <<"check_cookies">>
                                                   ELSE <<>>)
                                              \o <<IF hs.gate = "ig" THEN "click_follow"
                                                    ELSE "click_login", "wait_popup">>]
            /\ UNCHANGED <<running, handlerErr>>
    /\ GhUnchanged

\* The click on the skip control, or on the Instagram next button, resolved:
\* the handler returns.
GhClickDone ==
    /\ Alive
    /\ hs.pc \in {"skip_click", "next_click"}
    /\ hs.k \in running
    /\ hs' = [hs EXCEPT !.pc = "returned"]
    /\ GhEnd(NoError)
    /\ GhUnchanged

\* That click rejected: the handler throws.
GhClickFails ==
    /\ Alive
    /\ hs.pc \in {"skip_click", "next_click"}
    /\ hs.k \in running
    /\ hs' = [hs EXCEPT !.pc = "threw"]
    /\ GhEnd(<<"click failed">>)
    /\ GhUnchanged

\* The popup window appeared.  SoundCloud, Spotify: the handler brings it
\* to the front and waits for its approval control.  Instagram: the window
\* is closed at once, the button is done and the page is scanned again.
GhPopup ==
    /\ Alive
    /\ hs.pc = "popup"
    /\ hs.k \in running
    /\ hs.gate = "sp" => SpCanFind(variant, hs.popup)
    /\ hs' = IF hs.gate = "sp" /\ variant = "pw"
             THEN [hs EXCEPT !.pc = "inspect", !.popup = "open"]
             ELSE IF hs.gate # "ig"
             THEN [hs EXCEPT !.pc = "approve", !.popup = "open"]
             ELSE IF IgLoopEnds(hs.undone - 1)
             THEN [hs EXCEPT !.undone = @ - 1, !.pc = "next_click",
                             !.acts = @ \o <<"close_popup", "click_next">>]
             ELSE [hs EXCEPT !.undone = @ - 1,
                             !.acts = @ \o <<"close_popup", "click_follow", "wait_popup">>]
    /\ UNCHANGED <<running, handlerErr>>
    /\ GhUnchanged

\* Playwright build of the Spotify handler: `if (spotifyWindow.isClosed())
\* return;` before anything is done with the window.
GhInspect ==
    /\ Alive
    /\ hs.pc = "inspect"
    /\ hs.k \in running
    /\ IF hs.popup = "closed"
       THEN /\ hs' = [hs EXCEPT !.pc = "returned", !.acts = Append(@, "found_closed")]
            /\ GhEnd(NoError)
       ELSE /\ hs' = [hs EXCEPT !.pc = "approve"]
            /\ UNCHANGED <<running, handlerErr>>
    /\ GhUnchanged

\* The catch block of the Playwright build of the Spotify handler takes an
\* error of a popup that has closed as 'already authorized'.
SwallowsClosed(g, v, popup) == g = "sp" /\ v = "pw" /\ popup = "closed"

\* A wait inside the popup window failed: the handler throws, unless its
\* catch block finds the window closed.
GhPopupFails ==
    /\ Alive
    /\ hs.pc = "approve"
    /\ hs.k \in running
    /\ IF SwallowsClosed(hs.gate, variant, hs.popup)
       THEN /\ hs' = [hs EXCEPT !.pc = "returned", !.acts = Append(@, "found_closed")]
            /\ GhEnd(NoError)
       ELSE /\ hs' = [hs EXCEPT !.pc = "threw"]
            /\ GhEnd(<<hs.gate, " approval failed">>)
    /\ GhUnchanged

\* `while (!window.isClosed()) { await timeout(100); }` after the click on
\* the approval control; the older build returns after the click.
PollsClose(build) == build = "polls_close"

\* The approval control of the popup window is clicked.
GhApproveClicked ==
    /\ Alive
    /\ hs.pc = "approve"
    /\ hs.popup = "open"
    /\ hs.k \in running
    /\ IF PollsClose(hs.build)
       THEN /\ hs' = [hs EXCEPT !.pc = "closing", !.acts = Append(@, "click_approve")]
            /\ UNCHANGED <<running, handlerErr>>
       ELSE /\ hs' = [hs EXCEPT !.pc = "returned", !.acts = Append(@, "click_approve")]
            /\ GhEnd(NoError)
    /\ GhUnchanged

\* The popup window closes: once its approval control was clicked, or (the
\* Spotify popup of an app that is authorized already) by itself.
GhPopupCloses ==
    /\ Alive
    /\ hs.popup = "open"
    /\ \/ hs.pc \in {"closing", "returned"} /\ "click_approve" \in Range(hs.acts)
       \/ hs.gate = "sp" /\ hs.pc \in {"popup", "inspect", "approve"}
    /\ hs' = [hs EXCEPT !.popup = "closed"]
    /\ UNCHANGED <<running, handlerErr>>
    /\ GhUnchanged

\* CDP build of the Spotify handler: the popup opens after the one scan of
\* browser.pages(), when the handler has returned.
GhPopupOpensLate ==
    /\ Alive
    /\ hs.gate = "sp"
    /\ variant = "cdp"
    /\ hs.pc = "returned"
    /\ hs.noPopup
    /\ hs.popup = "none"
    /\ hs' = [hs EXCEPT !.popup = "open"]
    /\ UNCHANGED <<running, handlerErr>>
    /\ GhUnchanged

\* The poll finds the popup window closed: the handler returns.
GhClosedSeen ==
    /\ Alive
    /\ hs.pc = "closing"
    /\ hs.popup = "closed"
    /\ hs.k \in running
    /\ hs' = [hs EXCEPT !.pc = "returned"]
    /\ GhEnd(NoError)
    /\ GhUnchanged

\* No popup window appeared within the bounded wait.
GhNoPopup ==
    /\ Alive
    /\ hs.pc = "popup"
    /\ hs.k \in running
    /\ hs.gate = "sp" => SpCanMiss(variant, hs.popup)
    /\ IF PopupRequired(hs.gate)
       THEN /\ hs' = [hs EXCEPT !.pc = "threw", !.noPopup = TRUE]
            /\ GhEnd(WindowNotFound(hs.gate))
       ELSE /\ hs' = [hs EXCEPT !.pc = "returned", !.noPopup = TRUE]
            /\ GhEnd(NoError)
    /\ GhUnchanged

NextGates ==
    \/ Next
    \/ GhProbe
    \/ GhClickDone
    \/ GhClickFails
    \/ GhPopup
    \/ GhPopupFails
    \/ GhNoPopup
    \/ GhApproveClicked
    \/ GhPopupCloses
    \/ GhClosedSeen
    \/ GhInspect
    \/ GhPopupOpensLate
    \/ CookieFileChanges

SpecGates == InitGates /\ [][NextGates]_vars

\* ------------------------------------------------ a job started again
InitRetry == scope = "retry" /\ caller = "server" /\ InitRun

\* POST /api/job/:id/start for a job whose run has ended in 'error': the
\* stage guard lets it pass and runDownloadProcess is called anew, with a
\* new HypedditDownloader and, in downloadAudio, new locals.
Restart ==
    /\ Alive
    /\ scope = "retry"
    /\ pc = "done"
    /\ job.stage \in {"pending", "waiting_hypeddit", "error"}
    /\ obs.attempt < MaxAttempts
    /\ job' = updateProgress(job, "initializing_browser", <<"Launching browser...">>)
    /\ hypedditDownloader' = TRUE
    /\ downloadFilename' = null
    /\ spotifyCookiesExists' = FALSE
    /\ pc' = "initialize"
    /\ gateNames' = <<>>
    /\ idx' = 0
    /\ running' = {}
    /\ invoked' = <<>>
    /\ handlerErr' = NoError
    /\ daResult' = Pending
    /\ progressLog' = <<>>
    /\ dwPc' = "off"
    /\ listening' = FALSE
    /\ timer' = "unset"
    /\ clicks' = 0
    /\ clickDone' = FALSE
    /\ downloadGuid' = 0
    /\ resolved' = FALSE
    /\ captured' = 0
    /\ tr' = [t \in Transfers |-> "none"]
    /\ nProgress' = 0
    /\ caught' = NoError
    /\ hs' = NoHandler
    /\ obs' = [InitObs EXCEPT !.attempt = obs.attempt + 1, !.failedAt = idx]
    /\ UNCHANGED <<auxVars, cookieFile, fileVars, scope, caller, variant, browserOpen,
                   pageOpen, crashed>>

NextRetry ==
    \/ Next
    \/ Restart

SpecRetry == InitRetry /\ [][NextRetry]_vars

\* ------------------------------------------- a client of the event stream
InitEvents == scope = "events" /\ caller = "server" /\ InitRun

SseUnchanged ==
    UNCHANGED <<auxVars, cookieVars, hs, scope, caller, variant, pc, engineVars,
                downloadFilename, progressLog, dwVars, browserVars, sessionVars, caught,
                crashed, obs>>

\* GET /api/job/:id/events: the stream starts with the current progress and
\* a listener is subscribed.
SseConnect ==
    /\ Alive
    /\ scope = "events"
    /\ job.stream = "none"
    /\ job' = [job EXCEPT !.stream = "open", !.delivered = job.stage, !.listener = TRUE]
    /\ SseUnchanged

\* Mutant: the disconnect ends the run of the job.
SseAbort_AbortsRun ==
    /\ Alive
    /\ scope = "events"
    /\ job.stream = "open"
    /\ job' = [job EXCEPT !.listener = FALSE, !.stream = "closed", !.aborted = TRUE]
    /\ pc' = "done"
    /\ UNCHANGED <<auxVars, cookieVars, hs, scope, caller, variant, engineVars,
                   downloadFilename, progressLog, dwVars, browserVars, sessionVars, caught,
                   crashed, obs>>

\* The client disconnects: the 'abort' listener of req.signal unsubscribes
\* and closes the stream.
SseAbort ==
    /\ Alive
    /\ scope = "events"
    /\ job.stream = "open"
    /\ job' = [job EXCEPT !.listener = FALSE, !.stream = "closed", !.aborted = TRUE]
    /\ SseUnchanged

NextEvents ==
    \/ Next
    \/ SseConnect
    \/ SseAbort

SpecEvents == InitEvents /\ [][NextEvents]_vars

\* ------------------------------------------------- loading a cookie file
InitCookies ==
    /\ scope = "cookies"
    /\ caller = "cli"
    /\ variant = "pw"
    /\ InitState
    /\ life = NoLife
    /\ NoJobs

\* loadCookies(filename) returns the mapped records.
LoadCookies ==
    /\ scope = "cookies"
    /\ ~loadedCookies.returned
    /\ loadedCookies' = [returned |-> TRUE,
                         value |-> [i \in DOMAIN cookiesData |->
                                        PuppeteerCookie(cookiesData[i])]]
    /\ UNCHANGED <<auxVars, cookieFile, spotifyCookiesExists, cookiesData, scope, caller,
                   variant, pc, engineVars, downloadFilename, progressLog, dwVars,
                   browserVars, sessionVars, job, caught, crashed, obs, hs>>

NextCookies == LoadCookies

SpecCookies == InitCookies /\ [][NextCookies]_vars

\* ------------------------------------------------------------ prepareLogins
\* prepareLogins is called on an initialized downloader, by the CLI and by
\* the login route of the server.
InitLogins ==
    /\ scope = "logins"
    /\ caller \in Callers
    /\ variant \in Variants
    /\ InitState
    /\ life = NoLife
    /\ NoJobs

\* The awaited operations of handlePossibleCaptcha after its probe, in the
\* order of the code: the iframe and its frame, the wait for the slider, the
\* slider, track and boxes, the drag, the wait for the container to hide.
CaptchaSteps == <<"captcha_iframe", "captcha_slider", "captcha_boxes", "drag",
                  "captcha_hidden">>

\* The awaited operations of prepareLogins after the captcha handling: the
\* wait for the library link, its click with the navigation, the wait for
\* the library url, the close of the page.
SoundcloudSteps == <<"library_link", "library_click", "library_url", "soundcloud_close">>

\* `if (this.spotifyCookiesExists)`: the Spotify page, its idle network, the
\* click on the account settings link, the idle network, the close.
SpotifySteps == <<"spotify_goto", "spotify_idle", "settings_click", "settings_idle",
                  "spotify_close">>

\* The step after `step` when `step` succeeded.
AfterStep(step, spotify) ==
    LET order == <<"goto">> \o CaptchaSteps \o SoundcloudSteps
                 \o (IF spotify THEN SpotifySteps ELSE <<>>) \o <<"done">>
        i == CHOOSE j \in 1..Len(order) : order[j] = step
    IN order[i + 1]

\* Mutant: the timeout of the wait for the captcha container is not caught.
OnTimeout_Throws(step) == "threw"

\* Where prepareLogins is after the wait of `step` failed.  The catch block
\* around the wait for the captcha container logs and goes on to the library
\* link, captchaFrameFound still false; no other wait stands in a try block.
OnTimeout(step) == IF step = "captcha_container" THEN "library_link" ELSE "threw"

PlUnchanged ==
    UNCHANGED <<life, jobVars, store, meta, cookieVars, hs, scope, caller, variant, pc, engineVars,
                downloadFilename, progressLog, dwVars, browserVars, sessionVars, job,
                caught, crashed, obs>>

\* `await soundCloudPage.waitForSelector(SOUNDCLOUD_CAPTCHA_CONTAINER,
\* {timeout: 30_000})` inside try/catch, after the page was opened.
PlCaptchaWait ==
    /\ pl.pc = "captcha_wait"
    /\ \E appears \in BOOLEAN :
          pl' = IF appears
                THEN [pl EXCEPT !.pc = "captcha_probe", !.captchaFrameFound = TRUE,
                                !.acts = Append(@, "captcha_container")]
                ELSE [pl EXCEPT !.pc = OnTimeout("captcha_container"),
                                !.error = IF OnTimeout("captcha_container") = "threw"
                                          THEN <<"captcha_container">> ELSE @,
                                !.acts = Append(@, "no_captcha")]
    /\ PlUnchanged

\* handlePossibleCaptcha: `page.$(SOUNDCLOUD_CAPTCHA_CONTAINER)` finds the
\* container, or returns null and the function returns.
PlCaptchaProbe ==
    /\ pl.pc = "captcha_probe"
    /\ \E present \in BOOLEAN :
          pl' = IF present
                THEN [pl EXCEPT !.pc = "captcha_iframe"]
                ELSE [pl EXCEPT !.pc = "library_link", !.acts = Append(@, "captcha_gone")]
    /\ PlUnchanged

\* Every other awaited operation succeeds, or throws (its selector does not
\* appear within the wait, the element is null, the navigation fails); no
\* catch block stands around it, so prepareLogins rejects.
PlRequired ==
    /\ pl.pc \in {"goto"} \cup Range(CaptchaSteps) \cup Range(SoundcloudSteps)
                \cup Range(SpotifySteps)
    /\ \E ok \in BOOLEAN :
          pl' = IF ok
                THEN [pl EXCEPT !.pc = IF pl.pc = "goto" THEN "captcha_wait"
                                       ELSE AfterStep(pl.pc, spotifyCookiesExists),
                                !.acts = Append(@, pl.pc)]
                ELSE [pl EXCEPT !.pc = OnTimeout(pl.pc), !.error = <<pl.pc>>]
    /\ PlUnchanged

NextLogins ==
    \/ PlCaptchaWait
    \/ PlCaptchaProbe
    \/ PlRequired

SpecLogins == InitLogins /\ [][NextLogins]_vars

\* ------------------------------------------- the metadata route of a job
InitMetadata == scope = "metadata" /\ caller = "server" /\ InitRun

\* Mutant: the route does not look at the job's downloadFilename.
HasDownload_Unchecked(j) == TRUE

\* `if (!job.downloadFilename)` answers 400.
HasDownload(j) == Truthy(j.downloadFilename)

MetaUnchanged ==
    UNCHANGED <<life, jobVars, pl, store, cookieVars, hs, scope, caller, variant, pc,
                engineVars, downloadFilename, progressLog, dwVars, browserVars, sessionVars,
                caught, crashed, obs>>

\* POST /api/job/:id/metadata up to `await audioProcessor.processAudio`:
\* 400 without a downloaded file; otherwise the body is read (500 when that
\* throws), the stage becomes 'processing_audio', and the route answers 400
\* when neither an uploaded artwork nor the job's artwork is there.
MetaRequest ==
    /\ Alive
    /\ scope = "metadata"
    /\ meta.pc = "idle"
    /\ IF ~HasDownload(job)
       THEN /\ meta' = [meta EXCEPT !.response = 400]
            /\ UNCHANGED job
       ELSE \E body \in {"throws", "json", "form_with_artwork"} :
              IF body = "throws"
              THEN /\ meta' = [meta EXCEPT !.response = 500]
                   /\ UNCHANGED job
              ELSE /\ job' = updateProgress(job, "processing_audio", <<"Processing audio...">>)
                   /\ meta' = IF body = "form_with_artwork" \/ job.artworkBuffer
                              THEN [pc |-> "process_audio", response |-> 0]
                              ELSE [meta EXCEPT !.response = 400]
    /\ MetaUnchanged

\* processAudio resolved: outputFilename is stored and the stage is 'ready'.
MetaProcessed ==
    /\ Alive
    /\ scope = "metadata"
    /\ meta.pc = "process_audio"
    /\ job' = updateProgress([job EXCEPT !.outputFilename = "out.mp3"],
                             "ready", <<"Audio processing complete">>)
    /\ meta' = [pc |-> "idle", response |-> 200]
    /\ MetaUnchanged

\* processAudio rejected: the catch block of the route answers 500.
MetaFails ==
    /\ Alive
    /\ scope = "metadata"
    /\ meta.pc = "process_audio"
    /\ meta' = [pc |-> "idle", response |-> 500]
    /\ UNCHANGED job
    /\ MetaUnchanged

NextMetadata ==
    \/ Next
    \/ MetaRequest
    \/ MetaProcessed
    \/ MetaFails

SpecMetadata == InitMetadata /\ [][NextMetadata]_vars

\* ------------------------------------------- JobStore and its listeners
InitStore ==
    /\ scope = "store"
    /\ caller = "server"
    /\ variant = "pw"
    /\ InitState
    /\ life = NoLife
    /\ NoJobs

\* The stages the server writes with updateProgress and setError once a job
\* exists.
UpdateStages == {"initializing_browser", "handling_gates", "ready", "error"}

\* job.progress after the first n updates.
ProgressAfter(made, n) == IF n = 0 THEN "pending" ELSE made[n]

\* Mutant: deleting the job's whole listener set.
Unsubscribe_All(listenerSet, c) == {}

\* The function subscribe returns: `this.listeners.get(id)?.delete(listener)`.
Unsubscribe(listenerSet, c) == listenerSet \ {c}

\* The listener set after the listeners `cs` called their unsubscribe.
RECURSIVE UnsubscribeEach(_, _)
UnsubscribeEach(listenerSet, cs) ==
    IF cs = {} THEN listenerSet
    ELSE LET c == CHOOSE x \in cs : TRUE
         IN UnsubscribeEach(Unsubscribe(listenerSet, c), cs \ {c})

\* Mutant: the stream is closed after 'ready' only.
ClosesStream_ReadyOnly(stage) == stage = "ready"

\* `if (progress.stage === 'ready' || progress.stage === 'error')` of the
\* listener of the event stream.
ClosesStream(stage) == stage \in {"ready", "error"}

StUnchanged ==
    UNCHANGED <<life, jobVars, pl, meta, cookieVars, hs, scope, caller, variant, pc, engineVars,
                downloadFilename, progressLog, dwVars, browserVars, sessionVars, job,
                caught, crashed, obs>>

\* GET /api/job/:id/events: start(controller) enqueues the current progress
\* and subscribes the listener, with no await in between.
StConnect(c) ==
    /\ scope = "store"
    /\ store.stream[c] = "none"
    /\ store' = [store EXCEPT
                   !.stream[c] = "open",
                   !.received[c] = <<ProgressAfter(store.made, Len(store.made))>>,
                   !.from[c] = Len(store.made),
                   !.listeners = @ \cup {c}]
    /\ StUnchanged

\* updateProgress / setError: job.progress is replaced and notifyListeners
\* calls every listener of the set in turn.  The listener of a stream
\* enqueues the update (unsubscribing when the controller is closed), and
\* with 'ready' or 'error' sets the timer that closes the stream and
\* unsubscribes.
StUpdate(stage) ==
    /\ scope = "store"
    /\ Len(store.made) < MaxUpdates
    /\ LET called == store.listeners
           fails == {c \in called : store.stream[c] = "closed"}
           ends == {c \in called : ClosesStream(stage)}
       IN store' = [store EXCEPT
                      !.made = Append(@, stage),
                      !.received = [c \in Clients |->
                                      IF c \in called \ fails THEN Append(@[c], stage)
                                      ELSE @[c]],
                      !.stream = [c \in Clients |->
                                    IF c \in ends \ fails THEN "closing" ELSE @[c]],
                      !.unsubscribed = [c \in Clients |->
                                          @[c] + (IF c \in fails THEN 1 ELSE 0)
                                               + (IF c \in ends THEN 1 ELSE 0)],
                      !.listeners = UnsubscribeEach(@, fails \cup ends)]
    /\ StUnchanged

\* The timer set with 'ready' or 'error' fires: controller.close().
StTimer(c) ==
    /\ scope = "store"
    /\ store.stream[c] = "closing"
    /\ store' = [store EXCEPT !.stream[c] = "closed"]
    /\ StUnchanged

\* The client disconnects: the 'abort' listener of req.signal calls
\* unsubscribe and closes the controller.  The signal aborts once.
StAbort(c) ==
    /\ scope = "store"
    /\ store.stream[c] # "none"
    /\ ~store.aborted[c]
    /\ store' = [store EXCEPT
                   !.listeners = Unsubscribe(@, c),
                   !.aborted[c] = TRUE,
                   !.unsubscribed[c] = @ + 1,
                   !.stream[c] = "closed"]
    /\ StUnchanged

NextStore ==
    \/ \E c \in Clients : StConnect(c)
    \/ \E stage \in UpdateStages : StUpdate(stage)
    \/ \E c \in Clients : StTimer(c)
    \/ \E c \in Clients : StAbort(c)

SpecStore == InitStore /\ [][NextStore]_vars

\* ------------------------------------------ a downloader driven call by call
\* `new HypedditDownloader(config)`: the browser field is not assigned
\* until initialize() has launched a browser.
InitLifecycle ==
    /\ scope = "lifecycle"
    /\ caller = "cli"
    /\ variant = "pw"
    /\ InitState
    /\ life \in {[build |-> b, browser |-> "undefined", calls |-> <<>>] : b \in CloseBuilds}
    /\ NoJobs

\* close() throws: `this.browser.close()` on the unassigned field is a
\* TypeError; `this.browser?.close()` evaluates to undefined.
CloseThrows(build, browser) == build = "direct" /\ browser = "undefined"

\* The browser field after a close() that did not throw; closing a closed
\* browser leaves it closed.
AfterClose(browser) == IF browser = "open" THEN "closed" ELSE browser

\* initialize(): the launch succeeds and assigns the browser field, or it
\* fails and leaves the field as it was.
LcInitialize ==
    /\ Len(life.calls) < MaxCalls
    /\ \E launched \in BOOLEAN :
          life' = [life EXCEPT
                     !.browser = IF launched THEN "open" ELSE @,
                     !.calls = Append(@, IF launched THEN "initialize_ok"
                                         ELSE "initialize_throws")]
    /\ UNCHANGED <<runVars, jobVars, sideVars>>

\* close()
LcClose ==
    /\ Len(life.calls) < MaxCalls
    /\ life' = IF CloseThrows(life.build, life.browser)
               THEN [life EXCEPT !.calls = Append(@, "close_throws")]
               ELSE [life EXCEPT !.browser = AfterClose(@),
                                 !.calls = Append(@, "close_ok")]
    /\ UNCHANGED <<runVars, jobVars, sideVars>>

NextLifecycle ==
    \/ LcInitialize
    \/ LcClose

SpecLifecycle == InitLifecycle /\ [][NextLifecycle]_vars

\* ------------------------------------------- the web server with several jobs
InitJobs ==
    /\ scope = "jobs"
    /\ caller = "server"
    /\ variant = "cdp"
    /\ InitState
    /\ life = NoLife
    /\ NoJobs

\* The guard of POST /api/job/:id/start.
StartAllowed(st) == st \in {"pending", "waiting_hypeddit", "error"}

\* runDownloadProcess was called and has not returned.
Active(r) == runs[r].pc \notin {"none", "ended"}

\* close() of downloader d: `this.browser?.close()` closes the browser the
\* call finds assigned.
Closed(ss, d) == [ss EXCEPT ![d] = IF @ = "open" THEN "closed" ELSE @]

\* The catch block of run r, entered with browsers ss and stages st: close
\* whatever the module-level reference holds now, or record the error.
JCatch(r, ss, st) ==
    IF ref # 0
    THEN /\ sess' = Closed(ss, ref)
         /\ runs' = [runs EXCEPT ![r].pc = "catch_close", ![r].closing = ref]
         /\ jobStage' = st
    ELSE /\ sess' = ss
         /\ runs' = [runs EXCEPT ![r].pc = "ended"]
         /\ jobStage' = [st EXCEPT ![runs[r].job] = "error"]

\* A start request for job j: 400 unless the stage allows it; otherwise
\* runDownloadProcess runs up to `await hypedditDownloader.initialize()`.
JStart ==
    \E j \in Jobs :
        IF StartAllowed(jobStage[j])
        THEN \E r \in Runs :
                /\ runs[r].pc = "none"
                /\ \A q \in Runs : q < r => runs[q].pc # "none"
                /\ runs' = [runs EXCEPT ![r] = [NoRun EXCEPT !.job = j, !.pc = "initialize"]]
                /\ jobStage' = [jobStage EXCEPT ![j] = "initializing_browser"]
                /\ ref' = r
                /\ obsJ' = [obsJ EXCEPT ![j] = "accepted"]
                /\ UNCHANGED <<sess, runVars, life, sideVars>>
        ELSE /\ obsJ' = [obsJ EXCEPT ![j] = "rejected_400"]
             /\ UNCHANGED <<runs, sess, ref, jobStage, runVars, life, sideVars>>

\* initialize() of run r's downloader resolved: the stage is updated and
\* `hypedditDownloader.downloadAudio(...)` is called on the reference as it
\* is now (null: a TypeError caught by the catch block).
JInitOk ==
    \E r \in Runs :
        /\ runs[r].pc = "initialize"
        /\ LET ss == [sess EXCEPT ![r] = "open"]
               st == [jobStage EXCEPT ![runs[r].job] = "handling_gates"]
           IN IF ref = 0
              THEN JCatch(r, ss, st)
              ELSE /\ runs' = [runs EXCEPT ![r].pc = "download", ![r].target = ref]
                   /\ sess' = ss
                   /\ jobStage' = [st EXCEPT ![runs[ref].job] = "handling_gates"]
        /\ UNCHANGED <<ref, obsJ, runVars, life, sideVars>>

\* initialize() rejected, before or after the browser was launched.
JInitFails ==
    \E r \in Runs, launched \in BOOLEAN :
        /\ runs[r].pc = "initialize"
        /\ JCatch(r, [sess EXCEPT ![r] = IF launched THEN "open" ELSE "none"], jobStage)
        /\ UNCHANGED <<ref, obsJ, runVars, life, sideVars>>

\* downloadAudio resolved on an open browser; `await
\* hypedditDownloader.close()` is called on the reference as it is now.
JDownloadOk ==
    \E r \in Runs, res \in {"file", "null"} :
        /\ runs[r].pc = "download"
        /\ sess[runs[r].target] = "open"
        /\ LET st == IF res = "file"
                     THEN [jobStage EXCEPT ![runs[runs[r].target].job] = "downloading"]
                     ELSE jobStage
           IN IF ref = 0
              THEN JCatch(r, sess, st)
              ELSE /\ sess' = Closed(sess, ref)
                   /\ runs' = [runs EXCEPT ![r].pc = "close", ![r].closing = ref,
                                            ![r].result = res]
                   /\ jobStage' = st
        /\ UNCHANGED <<ref, obsJ, runVars, life, sideVars>>

\* downloadAudio rejected.
JDownloadFails ==
    \E r \in Runs :
        /\ runs[r].pc = "download"
        /\ JCatch(r, sess, jobStage)
        /\ UNCHANGED <<ref, obsJ, runVars, life, sideVars>>

\* close() resolved on the success path: `hypedditDownloader = null`, then
\* the no-file error or the ready stage.
JCloseDone ==
    \E r \in Runs :
        /\ runs[r].pc = "close"
        /\ ref' = 0
        /\ runs' = [runs EXCEPT ![r].pc = "ended"]
        /\ jobStage' = [jobStage EXCEPT ![runs[r].job] =
                           IF runs[r].result = "null" THEN "error" ELSE "ready"]
        /\ UNCHANGED <<sess, obsJ, runVars, life, sideVars>>

\* close() resolved in the catch block: `hypedditDownloader = null`, setError.
JCatchCloseDone ==
    \E r \in Runs :
        /\ runs[r].pc = "catch_close"
        /\ ref' = 0
        /\ runs' = [runs EXCEPT ![r].pc = "ended"]
        /\ jobStage' = [jobStage EXCEPT ![runs[r].job] = "error"]
        /\ UNCHANGED <<sess, obsJ, runVars, life, sideVars>>

NextJobs ==
    \/ JStart
    \/ JInitOk
    \/ JInitFails
    \/ JDownloadOk
    \/ JDownloadFails
    \/ JCloseDone
    \/ JCatchCloseDone

SpecJobs == InitJobs /\ [][NextJobs]_vars

\* ================================================================ claims
RECURSIVE Ascending(_)
Ascending(S) ==
    IF S = {} THEN <<>>
    ELSE LET m == CHOOSE x \in S : \A y \in S : x <= y
         IN <<m>> \o Ascending(S \ {m})

\* Positions up to n whose token is one of the five gate kinds.
KnownPositions(names, n) == {k \in 1..Len(names) : k <= n /\ names[k] \in gates}

\* Positions whose token is empty (null or the empty string).
EmptyPositions(names) == {k \in 1..Len(names) : names[k] \in {"", null}}

\* Positions whose token is non-empty and is no gate kind.
UnknownPositions(names) == {k \in 1..Len(names) : names[k] \notin gates \cup {"", null}}

Invoked == {invoked[j] : j \in 1..Len(invoked)}

\* C1: the handlers of the known tokens are invoked in the discovered
\* order, each only after the handler invoked before it has settled: the
\* invoked positions are exactly the known positions the loop has reached,
\* ascending, and at most one handler is in progress, the one invoked last.
C1_OrderedOneAtATime ==
    /\ invoked = Ascending(KnownPositions(gateNames, idx))
    /\ Cardinality(running) <= 1
    /\ \A j \in 1..Len(invoked) : invoked[j] \in running => j = Len(invoked)

C1_Witness ==
    /\ gateNames = <<"email", "sc", "dw">>
    /\ invoked = <<1, 2, 3>>
    /\ running = {3}

C3_EmptyTokenSkipped ==
    /\ \A k \in EmptyPositions(gateNames) : k \notin Invoked /\ k # idx
    /\ daResult.kind = "rejected" =>
          \A t \in {"", null} : daResult.error # NoHandlerMessage(t)
    /\ daResult.kind = "resolved" =>
          invoked = Ascending(KnownPositions(gateNames, Len(gateNames)))

C3_Witness ==
    /\ gateNames = <<"email", "", "dw">>
    /\ invoked = <<1, 3>>
    /\ daResult.kind = "resolved"
    /\ job.stage = "ready"

\* C5: when every token was handled and no download handler ran,
\* downloadAudio resolves to null, and the job layer makes that the error
\* state 'Download failed - no file received', never the stage 'ready'.
C5_NoFileIsError ==
    (idx = Len(gateNames) + 1 /\ \A k \in Invoked : gateNames[k] # "dw") =>
        /\ pc \in {"page_close", "srv_close", "done"}
        /\ daResult = IF pc = "page_close" THEN Pending ELSE Resolved(null)
        /\ job.stage # "ready"
        /\ pc = "done" =>
              /\ job.stage = "error"
              /\ job.error = <<"Download failed - no file received">>

C5_Witness ==
    /\ gateNames = <<"email", "sc">>
    /\ pc = "done"
    /\ daResult = Resolved(null)
    /\ job.stage = "error"
    /\ job.error = <<"Download failed - no file received">>

\* ------------------------------------------------ claims on the download gate
\* C4: when the download gate observed a transfer-start with suggested
\* filename F followed by the completed event of the same transfer, and
\* every gate finished without error, downloadAudio resolves to exactly F.
C4_ResolvesToStartedFilename ==
    (daResult.kind = "resolved" /\ obs.accepted # 0) =>
        daResult.value = SuggestedFilename(obs.accepted)

\* The run has ended: no step of the program or of the browser is possible.
Quiescent == ~ENABLED Next

\* C6: once the canceled event of the started transfer was handled,
\* downloadAudio never resolves and does not end unsettled: a run that has
\* ended has rejected, and when the job layer has recorded the error the
\* browser session is closed.
C6_CancelRejects ==
    obs.cancelHandled =>
        /\ daResult.kind # "resolved"
        /\ Quiescent => daResult.kind = "rejected"
        /\ pc = "done" => job.stage = "error" /\ ~browserOpen

\* C7: when the fallback delay elapsed with no transfer-start observed,
\* the button has been clicked a second time; and when the only transfer-start
\* came after the second click and its transfer completed, downloadAudio
\* resolves to that transfer's suggested filename.
C7_FallbackReclicks ==
    /\ obs.fallbackNoStart => clicks = 2
    /\ (clicks = 2 /\ daResult.kind = "resolved") =>
           /\ obs.accepted # 0
           /\ daResult.value = SuggestedFilename(obs.accepted)

\* C8: in one handling of the download gate the button is clicked at most
\* twice, the second click only when the fallback timer found no
\* transfer-start observed; no handler is invoked a second time, and after a
\* handler failed nothing further is invoked.
C8_AtMostOneReclick ==
    /\ clicks <= 2
    /\ clicks = 2 => obs.timerSaw = 0
    /\ \A i, j \in 1..Len(invoked) : invoked[i] = invoked[j] => i = j
    /\ handlerErr # NoError => running = {} /\ invoked[Len(invoked)] = idx

C8_Witness ==
    /\ variant = "cdp"
    /\ clicks = 2
    /\ timer = "fired"
    /\ obs.timerSaw = 0
    /\ dwPc = "wait"

\* C9: whenever the button has been clicked the download listener is
\* registered (or has already delivered its event), and no transfer-start
\* fired from the first click onward went unobserved.
C9_ListenerBeforeClick ==
    /\ (dwPc \in {"s2", "wait"} /\ clicks >= 1) => (listening \/ captured # 0)
    /\ ~obs.lostAfterClick
    /\ (dwPc = "wait" /\ obs.dwHandlings = 1 /\ tr[1] # "none") =>
           (obs.starts # <<>> /\ obs.starts[1] = 1)

C9_Witness ==
    /\ dwPc = "wait"
    /\ clicks = 1
    /\ ~clickDone
    /\ tr[1] = "started"
    /\ obs.starts = <<1>>

\* A step in which the browser reports the state of a transfer.
ProgressStep ==
    \/ nProgress' # nProgress
    \/ \E t \in Transfers : tr[t] = "started" /\ tr'[t] \in {"completed", "canceled"}

\* C10: while a transfer is tracked, a progress event (inProgress,
\* completed, canceled) for another identifier emits no progress event, does
\* not resolve the completion wait and raises no error.
C10_ForeignEventIgnored ==
    [][(downloadGuid # 0 /\ ProgressStep /\ obs'.lastEvent.guid # downloadGuid) =>
          UNCHANGED <<progressLog, job, resolved, crashed, daResult, handlerErr, running,
                      downloadGuid, downloadFilename, dwPc, pc>>]_vars

C10_Witness ==
    /\ obs.foreign
    /\ obs.lastEvent.state = "canceled"
    /\ obs.lastEvent.guid # downloadGuid
    /\ ~resolved
    /\ ~crashed
    /\ ~obs.cancelHandled

\* C11: during one traversal one transfer is tracked: after the first
\* transfer-start was observed, the tracked identifier and the recorded
\* filename are those of that transfer and no later transfer-start replaces
\* them.
C11_SingleTrackedTransfer ==
    obs.starts # <<>> =>
        /\ downloadGuid \in {0, obs.starts[1]}
        /\ downloadFilename \in {null, SuggestedFilename(obs.starts[1])}

\* ------------------------------------------- claims on errors and sessions
\* C14: when a gate handler threw, downloadAudio does not resolve; once its
\* await resumed it has rejected with that same error; the failed handler is
\* the last one invoked and was invoked once.
C14_HandlerErrorPropagates ==
    handlerErr # NoError =>
        /\ daResult.kind # "resolved"
        /\ pc \in {"gate", "catch", "catch_close", "done"}
        /\ pc # "gate" => daResult = Rejected(handlerErr) /\ caught = handlerErr
        /\ invoked[Len(invoked)] = idx
        /\ Cardinality({j \in 1..Len(invoked) : invoked[j] = idx}) = 1

C14_Witness ==
    /\ gateNames = <<"email", "sc", "dw">>
    /\ invoked = <<1, 2>>
    /\ daResult = Rejected(<<"sc", " gate failed">>)
    /\ pc = "done"
    /\ job.error = <<"sc", " gate failed">>

\* C15: whenever downloadAudio has rejected, the engine has closed the
\* browser session before the error reached the caller.
C15_EngineClosesOnFailure ==
    (daResult.kind = "rejected" /\ pc = "catch") => ~browserOpen

\* C18: while downloadAudio runs the browser session stays open, and when it
\* has returned the page it opened is closed and the session is still open.
C18_ReturnClosesPageOnly ==
    /\ pc \in {"gate", "settle", "page_close", "srv_close"} => browserOpen
    /\ (pc = "srv_close" /\ daResult.kind = "resolved") => ~pageOpen

C18_Witness ==
    /\ pc = "srv_close"
    /\ daResult = Resolved("track.wav")
    /\ ~pageOpen
    /\ browserOpen

\* C13: on every exit path of a run (filename returned, null returned, an
\* error thrown by initialize or downloadAudio) close() was called on the
\* browser session the run launched: no session is open after the run ended.
C13_EveryExitCloses ==
    pc = "done" => ~browserOpen

\* C12: close() does not throw, neither on a downloader whose initialize()
\* was never called nor when called again after an earlier close().
C12_CloseNeverThrows ==
    \A i \in 1..Len(life.calls) : life.calls[i] # "close_throws"

\* ------------------------------------------------ claims on concurrent jobs
\* C16: every run calls downloadAudio and close() only on the downloader it
\* created itself: the module-level reference never makes a run operate on,
\* or close, the session of another run.
C16_RunsUseOwnDownloader ==
    \A r \in Runs : runs[r].target \in {0, r} /\ runs[r].closing \in {0, r}

\* C17: a job never has more than one active run nor more than one open
\* browser session, and while a run of the job is in progress or the job is
\* ready its stage is one the start route answers with status 400.
C17_OneActiveRunPerJob ==
    \A j \in Jobs :
        /\ Cardinality({r \in Runs : runs[r].job = j /\ Active(r)}) <= 1
        /\ (\E r \in Runs : runs[r].job = j /\ Active(r)) => ~StartAllowed(jobStage[j])
        /\ ~StartAllowed("ready")
        /\ Cardinality({r \in Runs : runs[r].job = j /\ sess[r] = "open"}) <= 1

\* ------------------------------------------ claims on the sc, ig and sp gates
\* C19: when the skip control of the sc, ig or sp gate is present, the
\* handler does nothing but click it (no login or follow click, no wait for
\* a popup, no look at the Spotify cookies); once that click has resolved
\* the handler has returned without error and the traversal goes on with the
\* next token.
C19_SkipControlSkips ==
    (hs.gate \in DetailedGates /\ hs.skipper) =>
        /\ hs.pc \in {"probe", "skip_click", "returned", "threw"}
        /\ hs.acts = IF hs.pc = "probe" THEN <<>> ELSE <<"click_skip">>
        /\ hs.pc = "threw" => handlerErr = <<"click failed">>
        /\ hs.pc = "returned" =>
              /\ hs.k \notin running
              /\ idx = hs.k => handlerErr = NoError /\ pc \in {"gate", "settle"}
              /\ idx >= hs.k

C19_Witness ==
    /\ gateNames = <<"sc", "dw">>
    /\ hs.gate = "sc"
    /\ hs.skipper
    /\ hs.pc = "returned"
    /\ hs.acts = <<"click_skip">>
    /\ invoked = <<1, 2>>

\* C20: when no popup window appeared within the bounded wait after the
\* login or follow control of the sc or ig gate was clicked, the handler has
\* thrown its 'window not found' error: it neither went on nor kept waiting,
\* and downloadAudio does not resolve.
C20_NoPopupIsFatal ==
    (hs.gate \in {"sc", "ig"} /\ hs.noPopup) =>
        /\ hs.pc = "threw"
        /\ hs.k \notin running
        /\ handlerErr = WindowNotFound(hs.gate)
        /\ hs.acts[Len(hs.acts)] = "wait_popup"
        /\ idx = hs.k
        /\ daResult.kind # "resolved"

C20_Witness ==
    /\ hs.gate = "ig"
    /\ hs.noPopup
    /\ hs.acts = <<"click_follow", "wait_popup", "close_popup", "click_follow", "wait_popup">>
    /\ daResult = Rejected(<<"Instagram window not found after clicking button">>)
    /\ job.stage = "error"

\* C21: when the social-authorize (sc) handler, not skipped, has returned
\* successfully, it has clicked the approval control of the popup and that
\* popup window has closed: it never returns while the popup is still open.
C21_ReturnsAfterPopupClosed ==
    (hs.gate = "sc" /\ ~hs.skipper /\ hs.pc = "returned") =>
        /\ hs.acts = <<"click_login", "wait_popup", "click_approve">>
        /\ hs.popup = "closed"

\* C22: when the streaming-authorize (sp) gate cannot be skipped and no
\* spotify-cookies.json existed when initialize ran, the handler has thrown
\* the cookies-required error without clicking the login control, whatever
\* became of the file afterwards.
C22_CookiesRequired ==
    (hs.gate = "sp" /\ ~hs.skipper /\ ~spotifyCookiesExists /\ hs.pc # "probe") =>
        /\ hs.pc = "threw"
        /\ hs.acts = <<"check_cookies">>
        /\ hs.k \notin running
        /\ idx = hs.k =>
              handlerErr = <<"Spotify cookies are required to handle the Spotify gate.">>
        /\ daResult.kind # "resolved"

C22_Witness ==
    /\ hs.gate = "sp"
    /\ ~hs.skipper
    /\ ~spotifyCookiesExists
    /\ cookieFile
    /\ hs.pc = "threw"
    /\ daResult = Rejected(<<"Spotify cookies are required to handle the Spotify gate.">>)
    /\ job.stage = "error"

\* C23: in the streaming-authorize (sp) gate, when no popup window was
\* obtained within the bounded wait after the login click, or the popup was
\* found closed when it was inspected, the handler has returned successfully
\* and has clicked no accept control.
C23_NoPopupMeansAuthorized ==
    (hs.gate = "sp" /\ (hs.noPopup \/ "found_closed" \in Range(hs.acts))) =>
        /\ hs.pc = "returned"
        /\ hs.k \notin running
        /\ "click_approve" \notin Range(hs.acts)
        /\ "click_login" \in Range(hs.acts)
        /\ idx = hs.k => handlerErr = NoError /\ pc \in {"gate", "settle"}

C23_Witness ==
    /\ hs.gate = "sp"
    /\ hs.noPopup
    /\ hs.popup = "none"
    /\ hs.acts = <<"check_cookies", "click_login", "wait_popup">>
    /\ daResult.kind = "resolved"

\* C24: in the streaming-authorize (sp) gate, a popup window that the login
\* click opened and that stays open is never missed: when the handler has
\* returned, no such popup is open.
C24_PopupNeverMissed ==
    (hs.gate = "sp" /\ hs.build = "polls_close" /\ hs.pc = "returned") => hs.popup # "open"

\* C25: in the social-follow (ig) gate, not skipped, every loop iteration
\* clicks one follow control still marked incomplete, waits for its popup
\* and closes that popup, with nothing done inside it, before the page is
\* scanned again; the advance control is clicked last, and only when no
\* incomplete follow control remains.
C25_FollowLoop ==
    (hs.gate = "ig" /\ ~hs.skipper) =>
        /\ Range(hs.acts) \subseteq {"click_follow", "wait_popup", "close_popup", "click_next"}
        /\ \A i \in 1..Len(hs.acts) :
              /\ hs.acts[i] = "click_follow" =>
                    /\ i = 1 \/ hs.acts[i - 1] = "close_popup"
                    /\ i < Len(hs.acts) /\ hs.acts[i + 1] = "wait_popup"
              /\ hs.acts[i] = "wait_popup" =>
                    i = Len(hs.acts) \/ hs.acts[i + 1] = "close_popup"
              /\ hs.acts[i] = "close_popup" =>
                    /\ hs.acts[i - 1] = "wait_popup"
                    /\ i < Len(hs.acts) /\ hs.acts[i + 1] \in {"click_follow", "click_next"}
              /\ hs.acts[i] = "click_next" =>
                    /\ i = Len(hs.acts)
                    /\ hs.undone = 0
        /\ hs.pc = "returned" => hs.acts[Len(hs.acts)] = "click_next"
        /\ hs.pc = "popup" => hs.undone > 0

C25_Witness ==
    /\ hs.gate = "ig"
    /\ ~hs.skipper
    /\ hs.acts = <<"click_follow", "wait_popup", "close_popup",
                   "click_follow", "wait_popup", "close_popup", "click_next">>
    /\ hs.pc = "returned"
    /\ hs.undone = 0

\* ------------------------------------------------------ claims on loadCookies
\* C26: for every record of the cookie file, in its order: a record
\* without path yields a cookie with path "/", and a record with a non-empty
\* path yields a cookie with that path.
C26_MissingPathIsRoot ==
    loadedCookies.returned =>
        /\ Len(loadedCookies.value) = Len(cookiesData)
        /\ \A i \in 1..Len(cookiesData) :
              /\ "path" \in DOMAIN loadedCookies.value[i]
              /\ cookiesData[i].path = undefined => loadedCookies.value[i].path = "/"
              /\ cookiesData[i].path \notin {undefined, ""} =>
                    loadedCookies.value[i].path = cookiesData[i].path

C26_Witness ==
    /\ loadedCookies.returned
    /\ Len(cookiesData) = 2
    /\ cookiesData[1].path = undefined
    /\ cookiesData[2].path = "/charts"
    /\ loadedCookies.value[1].path = "/"
    /\ loadedCookies.value[2].path = "/charts"


\* C27 (as stated): a record whose sameSite is "unspecified" or missing
\* yields a cookie without sameSite attribute; every other sameSite value is
\* passed through unchanged.
C27_OtherSameSitePassed ==
    loadedCookies.returned =>
        \A i \in 1..Len(cookiesData) :
            IF cookiesData[i].sameSite \in {undefined, "unspecified"}
            THEN "sameSite" \notin DOMAIN loadedCookies.value[i]
            ELSE /\ "sameSite" \in DOMAIN loadedCookies.value[i]
                 /\ loadedCookies.value[i].sameSite = cookiesData[i].sameSite

\* C27 (amended): a record whose sameSite is "unspecified", missing or the
\* empty string yields a cookie without sameSite attribute; every other
\* sameSite value is passed through unchanged.
C27_SameSiteDropped ==
    loadedCookies.returned =>
        \A i \in 1..Len(cookiesData) :
            IF cookiesData[i].sameSite \in {undefined, "", "unspecified"}
            THEN "sameSite" \notin DOMAIN loadedCookies.value[i]
            ELSE /\ "sameSite" \in DOMAIN loadedCookies.value[i]
                 /\ loadedCookies.value[i].sameSite = cookiesData[i].sameSite

C27_Witness ==
    /\ loadedCookies.returned
    /\ Len(cookiesData) = 2
    /\ cookiesData[1].sameSite = "unspecified"
    /\ cookiesData[2].sameSite = "no_restriction"
    /\ DOMAIN loadedCookies.value[1] = {"name", "path"}
    /\ loadedCookies.value[2].sameSite = "no_restriction"


\* ------------------------------------------- claims on the event stream
\* C28: when the client of the event stream disconnects, its listener is
\* unsubscribed and its stream closed, and nothing else changes: the run of
\* the job is where it was, goes on to 'ready' or 'error' and still writes
\* the job's progress, downloadFilename and error, of which the closed
\* stream receives nothing.
C28_DisconnectLeavesRun ==
    [][/\ job'.aborted => ~job'.listener /\ job'.stream = "closed"
       /\ job.aborted => job'.delivered = job.delivered
       /\ (job'.aborted /\ ~job.aborted) =>
             /\ UNCHANGED <<pc, engineVars, dwVars, browserVars, sessionVars, caught, crashed,
                            downloadFilename, progressLog>>
             /\ job'.stage = job.stage /\ job'.message = job.message
             /\ job'.error = job.error /\ job'.downloadFilename = job.downloadFilename
       /\ (job'.aborted /\ pc' = "done") =>
             /\ job'.stage \in {"ready", "error"}
             /\ job'.stage = "error" => job'.error # NoError /\ job'.message = job'.error
             /\ job'.stage = "ready" =>
                   /\ Truthy(job'.downloadFilename)
                   /\ job'.downloadFilename = daResult'.value
                   /\ job'.error = NoError]_vars

C28_Witness ==
    /\ job.aborted
    /\ job.delivered = "handling_gates"
    /\ pc = "done"
    /\ job.stage = "ready"
    /\ Truthy(job.downloadFilename)
    /\ ~browserOpen


\* ------------------------------------------------ claims on a failed job
\* C29: when the run of a job has thrown, the job is in stage 'error' with
\* the message of the thrown error as job.error and as progress message.  A
\* later start of that job is a new traversal: it launches a new session,
\* navigates, discovers the gates again and handles them from the first
\* token on, wherever the earlier run failed.
C29_FailedRunRestarts ==
    /\ (pc = "done" /\ caught # NoError) =>
          /\ job.stage = "error"
          /\ job.error = caught
          /\ job.message = caught
          /\ ~browserOpen
    /\ obs.attempt > 1 =>
          /\ pc = "initialize" =>
                ~browserOpen /\ ~pageOpen /\ gateNames = <<>> /\ invoked = <<>>
          /\ pc \in {"initialize", "navigate"} => idx = 0 /\ daResult = Pending
          /\ pc \in {"gate", "settle", "page_close"} => browserOpen /\ pageOpen
          /\ invoked # <<>> => invoked[1] = NextIdx(gateNames, 1)
          /\ (idx > 0 /\ invoked = <<>>) => NextIdx(gateNames, 1) = idx
          /\ pc # "done" => job.stage # "error"

C29_Witness ==
    /\ obs.attempt = 2
    /\ obs.failedAt = 2
    /\ job.error = <<"email", " gate failed">>
    /\ gateNames = <<"email", "dw">>
    /\ invoked = <<1, 2>>
    /\ pc = "done"
    /\ job.stage = "ready"


\* ------------------------------------------------ claims on termination
\* A downloadAudio call has neither returned nor thrown.
CallPending == pc \in {"navigate", "gate", "settle", "page_close"} /\ daResult = Pending

\* Some step other than the start of a new transfer is possible: a step of
\* the program, a wait that completes or times out, an event of a transfer
\* that has started.
StepButStart ==
    \/ Start \/ InitializeOk \/ InitializeFails \/ Navigate \/ NavigateFails
    \/ GateAwaited \/ Settle \/ PageClose \/ SrvClose \/ ArtworkOk \/ ArtworkFails
    \/ Catch \/ CatchClose \/ HandlerReturns \/ HandlerThrows
    \/ DwButton \/ DwButtonFails \/ DwPrep \/ DwSetup2 \/ DwClickDone \/ DwClickFails
    \/ DwAllSettled \/ DwDetach \/ TimerFires
    \/ PwEventTimeout \/ PwBothSettled \/ PwSaved \/ PwSaveFails
    \/ BrowserProgress

\* C30: every downloadAudio call returns or throws, also when no transfer
\* ever starts and when the transfer is canceled: while the process lives,
\* a call is never left pending in a state where nothing can happen any
\* more unless a new transfer starts.
C30_DownloadAudioEnds == (Alive /\ CallPending) => ENABLED StepButStart


\* ------------------------------------------- claims on the progress events
\* The 'handling_gates' events that name a gate, in the order of emission.
GateEvents ==
    SelectSeq(progressLog, LAMBDA e : e.stage = "handling_gates" /\ e.currentGate # null)

C40_HandledBeforeUnknownFails ==
    \A k \in UnknownPositions(gateNames) :
        (idx = k /\ daResult = Rejected(NoHandlerMessage(gateNames[k]))) =>
            /\ Invoked = KnownPositions(gateNames, k - 1)
            /\ running = {}
            /\ handlerErr = NoError

C40_Witness ==
    /\ gateNames = <<"email", "sc", "fb">>
    /\ invoked = <<1, 2>>
    /\ running = {}
    /\ idx = 3
    /\ daResult = Rejected(NoHandlerMessage("fb"))


\* ------------------------------------------ claims on the follow loop's end
\* Number of occurrences of the act a in the handler's record.
Times(a) == Cardinality({i \in 1..Len(hs.acts) : hs.acts[i] = a})

\* C32: in the social-follow (ig) gate, not skipped, on a page that showed
\* N incomplete follow controls, each closed popup leaves one control less:
\* the loop never clicks more than N of them, the advance control is
\* clicked only after exactly N iterations, a handler that returned has
\* made exactly N, and the loop ends earlier only when a popup wait failed.
C32_LoopEndsAfterN ==
    (hs.gate = "ig" /\ ~hs.skipper) =>
        /\ Times("close_popup") + hs.undone = hs.controls
        /\ Times("click_follow") <= hs.controls
        /\ Times("click_next") > 0 =>
              /\ Times("click_follow") = hs.controls
              /\ Times("close_popup") = hs.controls
              /\ Times("click_next") = 1
        /\ hs.pc = "returned" => Times("click_follow") = hs.controls
        /\ (hs.pc = "threw" /\ Times("click_next") = 0) =>
              /\ hs.noPopup
              /\ handlerErr = WindowNotFound("ig")

C32_Witness ==
    /\ hs.gate = "ig"
    /\ ~hs.skipper
    /\ hs.controls = MaxFollowButtons
    /\ Times("click_follow") = MaxFollowButtons
    /\ Times("close_popup") = MaxFollowButtons
    /\ hs.acts[Len(hs.acts)] = "click_next"
    /\ hs.pc = "returned"


\* ------------------------------------------------- claims on prepareLogins
\* C33: in prepareLogins the only failed wait that is survived is the one
\* for the captcha container: after it no drag is attempted, the routine
\* goes on with the library link and can complete; the failure of any
\* other awaited step ends the routine with that step's error, the step
\* tried once and nothing done after it.
C33_OnlyCaptchaTolerated ==
    /\ pl.error # <<"captcha_container">>
    /\ ~pl.captchaFrameFound => "drag" \notin Range(pl.acts)
    /\ (pl.acts # <<>> /\ pl.acts[Len(pl.acts)] = "no_captcha") =>
          \/ pl.pc = "library_link" /\ pl.error = NoError
          \/ pl.pc = "threw" /\ pl.error = <<"library_link">>
    /\ pl.pc = "threw" <=> pl.error # NoError
    /\ pl.pc = "threw" =>
          /\ pl.error[1] \notin Range(pl.acts)
          /\ ~ENABLED NextLogins
    /\ \A i, j \in 1..Len(pl.acts) : pl.acts[i] = pl.acts[j] => i = j
    /\ pl.pc = "done" =>
          /\ Range(SoundcloudSteps) \subseteq Range(pl.acts)
          /\ spotifyCookiesExists => Range(SpotifySteps) \subseteq Range(pl.acts)

C33_Witness ==
    /\ pl.pc = "done"
    /\ ~pl.captchaFrameFound
    /\ pl.acts = <<"goto", "no_captcha">> \o SoundcloudSteps
    /\ pl.error = NoError


\* ------------------------------------------- claims on the job's listeners
\* The updates made since client c connected.
Since(c) == SubSeq(store.made, store.from[c] + 1, Len(store.made))

\* Positions of Since(c) whose update has stage ready or error.
Terminals(c) == {i \in 1..Len(Since(c)) : Since(c)[i] \in {"ready", "error"}}

\* C34: the stream of a connected client starts with the progress the job
\* had at the connect and continues with the updates made since, in their
\* order and without a gap: all of them while its listener is subscribed,
\* and, unless the client left, up to and including the first update with
\* stage ready or error, with which the listener is unsubscribed and the
\* stream closes.
C34_StreamFollowsUpdates ==
    \A c \in Clients :
        store.stream[c] # "none" =>
            LET got == Tail(store.received[c]) IN
            /\ store.received[c][1] = ProgressAfter(store.made, store.from[c])
            /\ Len(got) <= Len(Since(c))
            /\ \A i \in 1..Len(got) : got[i] = Since(c)[i]
            /\ c \in store.listeners =>
                  /\ got = Since(c)
                  /\ Terminals(c) = {}
                  /\ store.stream[c] = "open"
            /\ (~store.aborted[c] /\ Terminals(c) = {}) => c \in store.listeners
            /\ (~store.aborted[c] /\ Terminals(c) # {}) =>
                  /\ c \notin store.listeners
                  /\ store.stream[c] \in {"closing", "closed"}
                  /\ Len(got) \in Terminals(c)
                  /\ \A i \in Terminals(c) : Len(got) <= i

C34_Witness ==
    /\ store.made = <<"initializing_browser", "handling_gates", "ready">>
    /\ store.received["c1"] = <<"pending", "initializing_browser", "handling_gates", "ready">>
    /\ store.received["c2"] = <<"initializing_browser", "handling_gates", "ready">>
    /\ store.stream["c1"] = "closed"
    /\ ~store.aborted["c1"]
    /\ store.listeners = {}

\* C35: once a listener's unsubscribe was called, the listener is not in
\* the set and its stream gets nothing more; a call of unsubscribe removes
\* that listener only, and nothing when it was called before; and an
\* update reaches every listener that is still subscribed.
C35_UnsubscribeIsFinal ==
    [][\A c \in Clients :
          /\ store.unsubscribed[c] > 0 =>
                /\ c \notin store.listeners
                /\ c \notin store'.listeners
                /\ store'.received[c] = store.received[c]
          /\ (store'.aborted[c] /\ ~store.aborted[c]) =>
                /\ store'.listeners = store.listeners \ {c}
                /\ store'.received = store.received
                /\ store.unsubscribed[c] > 0 => store'.listeners = store.listeners
          /\ (store'.made # store.made /\ c \in store.listeners) =>
                /\ store'.received[c] = Append(store.received[c], store'.made[Len(store'.made)])
                /\ c \in store'.listeners <=> store'.unsubscribed[c] = 0]_vars

C35_Witness ==
    /\ store.unsubscribed["c1"] = 2
    /\ store.aborted["c1"]
    /\ store.made = <<"error", "initializing_browser", "handling_gates">>
    /\ store.received["c1"] = <<"pending", "error">>
    /\ store.received["c2"] = <<"error", "initializing_browser", "handling_gates">>
    /\ store.listeners = {"c2"}


\* C38: the job's error is set exactly while the job's stage is 'error',
\* also after a failed job was started again.
C38_ErrorIffErrorStage ==
    job.error # NoError <=> job.stage = "error"


\* ------------------------------------------- claims on the job's stages
\* C36: in every state of the job server a job in stage 'ready' has a
\* downloadFilename, whether the stage was written by the run of the job
\* or by the metadata route.
C36_ReadyHasFile ==
    job.stage = "ready" => job.downloadFilename # null /\ Truthy(job.downloadFilename)

C36_Witness ==
    /\ job.stage = "ready"
    /\ job.message = <<"Audio processing complete">>
    /\ Truthy(job.downloadFilename)
    /\ job.outputFilename # null
    /\ meta.response = 200
    /\ pc = "done"

\* C37: a job whose run was started does not rest in an intermediate stage:
\* when the run has ended and no request of the metadata route is being
\* served, the stage is 'ready' or 'error'.
C37_NoRestInIntermediateStage ==
    (pc = "done" /\ meta.pc = "idle") => job.stage \in {"ready", "error"}


\* ------------------------------------------- claims on the percent values
\* a <= b for two fractions with positive denominators.
AtMost(a, b) == a.num * b.den <= b.num * a.den

\* C39: in the build that passes percent values, the events of one
\* traversal carry percent values that never decrease from one event to
\* the next, whatever the gate sequence and the position of dw in it.
C39_PercentNeverDecreases ==
    (variant = "cdp" /\ caller = "server") =>
        \A i \in 1..Len(progressLog) - 1 :
            AtMost(progressLog[i].percent, progressLog[i + 1].percent)

====
